---- MODULE Spec2Model ----
(***************************************************************************)
(* Storefront client of shazy655/my-magento-pwa: the cart-id lifecycle of  *)
(* the API service (src/services/magentoApi.js), the product lookup of     *)
(* src/api/magento.js and the product pages' view state.                   *)
(*                                                                         *)
(* Each asynchronous function is cut at its awaits: one action per         *)
(* response of the platform, running the code from that await up to the    *)
(* next request it issues (or up to the settlement of the call).           *)
(***************************************************************************)
EXTENDS Integers, Sequences, FiniteSets, TLC

VARIABLES
    localStorage,   \* browser local storage: guest_cart_id, cart_data, cart_data_timestamp
    nextCartId,     \* platform: the id the next created cart gets
    rest,           \* one call of the REST addToGuestCart (magentoApi.js:1125)
    lookup,         \* one call of getProductBySku (api/magento.js:33)
    fmv,            \* one application of findMatchingVariant (ProductDetailPage.js:130)
    svc,            \* one call of the GraphQL service (magentoApi.js:15-725)
    page,           \* view state of ProductDetailPage (ProductDetailPage.js:9-16)
    now,            \* Date.now(), in milliseconds
    cartRev,        \* platform: the revision of the guest cart's contents
    pd,             \* view state of ProductDetails (ProductDetails.js:6-13)
    loads,          \* the runs of the load effect of ProductDetails, oldest first
    calls,          \* two overlapping calls of the GraphQL service (magentoApi.js:389-460)
    rpd,            \* view state of the REST product detail page and its add in flight
    listing,        \* one call of fetchProducts
    prov,           \* CartProvider (contexts/CartContext.js): its state and its running operations
    chk             \* view state of Checkout (unnamed/part_008) and its submit in flight

vars == <<localStorage, nextCartId, rest, lookup, fmv, svc, page, now, cartRev, pd, loads,
          calls, rpd, listing, prov, chk>>

(* localStorage.getItem returns null for an absent key: Null for the cart id,
   NoItem for the keys that hold text (falsy like the empty string) *)
Null == 0
NoItem == <<>>

(* ---- bounds ---------------------------------------------------------- *)
MaxCartId == 3      \* carts the platform creates in one run
MaxAdds == 3        \* add-item requests followed within one call
MaxQty == 1         \* quantities offered to the add-to-cart calls
MaxVariants == 2    \* variants of a configurable product
MaxNow == 450000    \* the clock stops here
MaxRev == 2         \* revisions of the platform cart
MaxLoads == 3       \* runs of the load effect of ProductDetails
MaxPage == 3        \* page sizes and page numbers asked of fetchProducts

Skus == {"SKU-A", "SKU-B"}

(* ---- error messages --------------------------------------------------- *)
(* An Error message is the sequence of its text fragments; a template      *)
(* literal `prefix ${inner.message}` puts the prefix in front of it.       *)
NoSuchEntity == "No such entity"

wrap(prefix, msg) == <<prefix>> \o msg

(* String.prototype.includes on a message, for a fragment *)
includes(msg, fragment) == \E i \in 1..Len(msg) : msg[i] = fragment

(* the bodies the platform sends with an HTTP error status *)
ErrorTexts == {NoSuchEntity, "Internal error"}
(* the messages of a GraphQL errors array, joined by '; ' *)
GqlErrorTexts == {NoSuchEntity, "Could not create cart"}

(* ---- platform answers -------------------------------------------------- *)
(* what one fetch can end in: the kind of the response and its text *)
HttpAnswers == [kind : {"httpError"}, text : ErrorTexts]
FetchFailures == {[kind |-> "networkError", text |-> "Failed to fetch"],
                  [kind |-> "badJson", text |-> "Unexpected token"]}

(* ======================================================================= *)
(* REST service: createGuestCart, getGuestCartId, addToGuestCart           *)
(* ======================================================================= *)

RestIdle == [op |-> "addToGuestCart", useGraphQL |-> TRUE,
             pc |-> "idle", sku |-> "SKU-A", qty |-> 1, cartId |-> Null,
             cachedAtStart |-> Null, reqs |-> <<>>, removed |-> 0,
             error |-> <<>>, ret |-> Null]

(* the log of the requests of one call: the last entry is the one in flight *)
issue(log, api, cartId) == log \o <<[api |-> api, cart |-> cartId, answer |-> "pending"]>>
setLast(log, answer) == [log EXCEPT ![Len(log)].answer = answer]

(* the fetch of addToGuestCart: POST guest-carts/{cartId}/items *)
restIssueAdd(r, cartId) ==
    [r EXCEPT !.pc = "add", !.cartId = cartId, !.reqs = issue(@, "add", cartId)]

(* the fetch of createEmptyCart (GraphQL) / createGuestCart (REST) *)
restIssueCreate(r, api) ==
    [r EXCEPT !.pc = api, !.reqs = issue(@, api, Null)]

(* return cartId of getGuestCartId: a direct call resolves with it,
   addToGuestCart issues its add for that cart *)
restGotCartId(r, cartId) ==
    IF r.op = "getGuestCartId"
    THEN [r EXCEPT !.pc = "resolved", !.ret = cartId]
    ELSE restIssueAdd(r, cartId)

(* getGuestCartId(useGraphQL) up to its await: the stored id, or the
   creation through GraphQL (useGraphQL) or REST *)
getGuestCartIdRest(r, storage) ==
    IF storage.guest_cart_id # Null
    THEN restGotCartId(r, storage.guest_cart_id)
    ELSE IF r.useGraphQL
    THEN restIssueCreate(r, "gqlCreate")
    ELSE restIssueCreate(r, "restCreate")

(* the catch block without the fallback: the GraphQL error is rethrown *)
restFallback_None(r) ==
    [r EXCEPT !.pc = "rejected", !.error = <<"Failed to create empty cart: ">>]

(* the catch block of getGuestCartId for a failed GraphQL creation
   (useGraphQL is true): the REST fallback *)
restFallback(r) == restIssueCreate(r, "restCreate")

(* the catch block of addToGuestCart: retry on 'No such entity' *)
restCatchRetries(msg) == includes(msg, NoSuchEntity)

(* the removal left out: the cached id survives the failed add *)
removeGuestCartId_Kept(storage) == storage

(* localStorage.removeItem('guest_cart_id') *)
removeGuestCartId(storage) == [storage EXCEPT !.guest_cart_id = Null]

(* localStorage.setItem('guest_cart_id', cartId) *)
setGuestCartId(storage, cartId) == [storage EXCEPT !.guest_cart_id = cartId]

restReject(r, msg) ==
    [r EXCEPT !.pc = "rejected", !.error = wrap("Failed to add item to cart: ", msg)]

(* the whole catch block, for the error msg *)
restCatch(r, msg) ==
    IF restCatchRetries(msg)
    THEN /\ Len(SelectSeq(r.reqs, LAMBDA q : q.api = "add")) < MaxAdds
         /\ localStorage' = removeGuestCartId(localStorage)
         /\ rest' = getGuestCartIdRest([r EXCEPT !.removed = @ + 1], localStorage')
    ELSE /\ rest' = restReject(r, msg)
         /\ UNCHANGED localStorage

(* an error leaves getGuestCartId: a direct call rejects with it, inside
   addToGuestCart it reaches the catch block *)
restThrown(r, msg) ==
    IF r.op = "getGuestCartId"
    THEN /\ rest' = [r EXCEPT !.pc = "rejected", !.error = msg]
         /\ UNCHANGED localStorage
    ELSE restCatch(r, msg)

(* a direct call of getGuestCartId(useGraphQL) *)
RestGetGuestCartId(useGraphQL) ==
    /\ rest.pc \in {"idle", "resolved", "rejected"}
    /\ rest' = getGuestCartIdRest(
                 [RestIdle EXCEPT !.op = "getGuestCartId", !.useGraphQL = useGraphQL,
                                  !.cachedAtStart = localStorage.guest_cart_id],
                 localStorage)
    /\ UNCHANGED <<localStorage, nextCartId, lookup, fmv, svc, page, now, cartRev, pd, loads,
                 calls, rpd, listing, prov, chk>>

(* a call of addToGuestCart(sku, quantity) *)
RestAddToGuestCart(sku, qty) ==
    /\ rest.pc \in {"idle", "resolved", "rejected"}
    /\ rest' = getGuestCartIdRest(
                 [RestIdle EXCEPT !.sku = sku, !.qty = qty,
                                  !.cachedAtStart = localStorage.guest_cart_id],
                 localStorage)
    /\ UNCHANGED <<localStorage, nextCartId, lookup, fmv, svc, page, now, cartRev, pd, loads,
                 calls, rpd, listing, prov, chk>>

(* createEmptyCart succeeded: the id is stored and the add is issued *)
RestGqlCreateOk ==
    /\ rest.pc = "gqlCreate"
    /\ nextCartId <= MaxCartId
    /\ localStorage' = setGuestCartId(localStorage, nextCartId)
    /\ nextCartId' = nextCartId + 1
    /\ rest' = restGotCartId([rest EXCEPT !.reqs = setLast(@, "ok")], nextCartId)
    /\ UNCHANGED <<lookup, fmv, svc, page, now, cartRev, pd, loads,
                 calls, rpd, listing, prov, chk>>

(* createEmptyCart failed: getGuestCartId falls back to createGuestCart *)
RestGqlCreateFail ==
    /\ rest.pc = "gqlCreate"
    /\ \E kind \in {"httpError", "gqlErrors", "noCartId", "networkError"} :
         rest' = restFallback([rest EXCEPT !.reqs = setLast(@, kind)])
    /\ UNCHANGED <<localStorage, nextCartId, lookup, fmv, svc, page, now, cartRev, pd, loads,
                 calls, rpd, listing, prov, chk>>

(* createGuestCart succeeded *)
RestCreateOk ==
    /\ rest.pc = "restCreate"
    /\ nextCartId <= MaxCartId
    /\ localStorage' = setGuestCartId(localStorage, nextCartId)
    /\ nextCartId' = nextCartId + 1
    /\ rest' = restGotCartId([rest EXCEPT !.reqs = setLast(@, "ok")], nextCartId)
    /\ UNCHANGED <<lookup, fmv, svc, page, now, cartRev, pd, loads,
                 calls, rpd, listing, prov, chk>>

(* createGuestCart failed: as the primary creation (useGraphQL false) its
   error is rethrown by the catch block, as the fallback it is not caught;
   either way it leaves getGuestCartId; the message carries the status only *)
RestCreateFail ==
    /\ rest.pc = "restCreate"
    /\ \E f \in {[kind |-> "httpError", text |-> "HTTP error! status: 500"]} \cup FetchFailures :
         restThrown([rest EXCEPT !.reqs = setLast(@, f.kind)],
                    wrap("Failed to create cart: ", <<f.text>>))
    /\ UNCHANGED <<nextCartId, lookup, fmv, svc, page, now, cartRev, pd, loads,
                 calls, rpd, listing, prov, chk>>

(* the add-item request was accepted *)
RestAddOk ==
    /\ rest.pc = "add"
    /\ rest' = [rest EXCEPT !.pc = "resolved", !.reqs = setLast(@, "ok"),
                            !.ret = rest.cartId]
    /\ UNCHANGED <<localStorage, nextCartId, lookup, fmv, svc, page, now, cartRev, pd, loads,
                 calls, rpd, listing, prov, chk>>

(* the add-item request failed *)
RestAddFail ==
    /\ rest.pc = "add"
    /\ \E f \in HttpAnswers \cup FetchFailures :
         LET msg == IF f.kind = "httpError"
                    THEN <<"HTTP error! status: 404, message: ", f.text>>
                    ELSE <<f.text>>
         IN  restCatch([rest EXCEPT !.reqs = setLast(@, IF includes(msg, NoSuchEntity)
                                                        THEN "noSuchEntity" ELSE f.kind)],
                       msg)
    /\ UNCHANGED <<nextCartId, lookup, fmv, svc, page, now, cartRev, pd, loads,
                 calls, rpd, listing, prov, chk>>

(* ======================================================================= *)
(* api/magento.js: getProductBySku, graphqlRequest, getProductBySkuRest    *)
(* ======================================================================= *)

LookupIdle == [pc |-> "idle", sku |-> "SKU-A", reqs |-> <<>>, error |-> <<>>, ret |-> Null]

(* what graphqlRequest can end in for the product query:
   data with the product, data with no item, an HTTP error status,
   a payload with errors, a fetch that rejects, a body that is not JSON *)
GraphqlOutcomes == {"product", "noItems", "httpError", "gqlErrors", "networkError", "badJson"}

(* graphqlRequest: the message it throws, <<>> when it returns the data *)
graphqlRequest(outcome) ==
    CASE outcome = "httpError" -> <<"GraphQL request failed: ", "500">>
      [] outcome = "gqlErrors" -> <<"Unknown GraphQL error">>
      [] outcome = "networkError" -> <<"Failed to fetch">>
      [] outcome = "badJson" -> <<"Unexpected token">>
      [] OTHER -> <<>>

(* the catch block rethrowing instead of falling back *)
lookupCatch_Rethrow(l) == [l EXCEPT !.pc = "rejected", !.error = <<"Product not found">>]

(* the catch block of getProductBySku: whatever was thrown, the REST request *)
lookupCatch(l) == [l EXCEPT !.pc = "rest", !.reqs = issue(@, "rest", Null)]

(* a call of getProductBySku(sku): the GraphQL product query is issued *)
GetProductBySku(sku) ==
    /\ lookup.pc \in {"idle", "resolved", "rejected"}
    /\ lookup' = [LookupIdle EXCEPT !.pc = "gql", !.sku = sku,
                                    !.reqs = issue(<<>>, "gql", Null)]
    /\ UNCHANGED <<localStorage, nextCartId, rest, fmv, svc, page, now, cartRev, pd, loads,
                 calls, rpd, listing, prov, chk>>

(* the answer to the GraphQL product query *)
LookupGraphqlResponse ==
    /\ lookup.pc = "gql"
    /\ \E outcome \in GraphqlOutcomes :
         LET l == [lookup EXCEPT !.reqs = setLast(@, outcome)]
             thrown == IF outcome = "noItems" THEN <<"Product not found">>
                       ELSE graphqlRequest(outcome)
         IN  lookup' = IF thrown = <<>>
                       THEN [l EXCEPT !.pc = "resolved", !.ret = 1]
                       ELSE lookupCatch(l)
    /\ UNCHANGED <<localStorage, nextCartId, rest, fmv, svc, page, now, cartRev, pd, loads,
                 calls, rpd, listing, prov, chk>>

(* the answer to the REST product request of getProductBySkuRest *)
LookupRestResponse ==
    /\ lookup.pc = "rest"
    /\ \E outcome \in {"product", "httpError", "networkError", "badJson"} :
         LET l == [lookup EXCEPT !.reqs = setLast(@, outcome)]
         IN  lookup' = IF outcome = "product"
                       THEN [l EXCEPT !.pc = "resolved", !.ret = 1]
                       ELSE [l EXCEPT !.pc = "rejected",
                                      !.error = IF outcome = "httpError"
                                                THEN <<"REST request failed: ", "404">>
                                                ELSE <<outcome>>]
    /\ UNCHANGED <<localStorage, nextCartId, rest, fmv, svc, page, now, cartRev, pd, loads,
                 calls, rpd, listing, prov, chk>>

(* ======================================================================= *)
(* components/ProductDetailPage.js: findMatchingVariant                    *)
(* ======================================================================= *)

(* selections[opt.id] of an option nothing was selected for (undefined) *)
NoValue == -1
(* the value_index values of the options; 0 is what Number('') gives when the
   placeholder entry of the select is chosen *)
ValueIndexes == {1, 2}
OptionIds == {1, 2}
AttributeCodes == {"color", "size"}
(* attribute_code of an option the product query did not return one for *)
NoCode == "undefined"

(* configurable_options: none, one option, or two; option i has id i *)
OptionLists ==
    {<<>>}
    \cup {<<[id |-> 1, attribute_code |-> c]>> : c \in {"color", NoCode}}
    \cup {<<[id |-> 1, attribute_code |-> c], [id |-> 2, attribute_code |-> d]>> :
            c \in {"color", NoCode}, d \in {"size", NoCode}}

(* the attributes list of a variant *)
AttributeLists ==
    {<<>>}
    \cup {<<[code |-> c, value_index |-> v]>> : c \in AttributeCodes, v \in ValueIndexes}
    \cup {<<[code |-> "color", value_index |-> v], [code |-> "size", value_index |-> w]>> :
            v \in ValueIndexes, w \in ValueIndexes}

(* variants: the variant at position i has the sku i *)
VariantLists ==
    UNION {{[i \in 1..n |-> [product |-> [sku |-> i], attributes |-> f[i]]] :
              f \in [1..n -> AttributeLists]} : n \in 0..MaxVariants}

Selections == [OptionIds -> ValueIndexes \cup {0, NoValue}]

(* Array.prototype.find: the index of the first element satisfying test, 0 if none *)
findIndex(seq, test(_)) ==
    IF \E i \in 1..Len(seq) : test(seq[i])
    THEN CHOOSE i \in 1..Len(seq) : test(seq[i]) /\ \A j \in 1..(i - 1) : ~test(seq[j])
    ELSE 0

(* requiredCodes: the attribute codes of the options, filter(Boolean) *)
requiredCodes(options) ==
    SelectSeq([i \in 1..Len(options) |-> options[i].attribute_code], LAMBDA c : c # NoCode)

(* selectedByCode[code]: the selection of the last option with that code that
   has one, NoValue when there is none *)
selectedByCode(options, selections, code) ==
    LET hits == {i \in 1..Len(options) :
                    /\ options[i].attribute_code # NoCode
                    /\ options[i].attribute_code = code
                    /\ selections[options[i].id] # NoValue}
    IN  IF hits = {} THEN NoValue
        ELSE selections[options[CHOOSE i \in hits : \A j \in hits : j <= i].id]

(* the test of variants.find: every required code has its selected value *)
variantMatches(variant, options, selections) ==
    LET codes == requiredCodes(options) IN
    \A k \in 1..Len(codes) :
        LET a == findIndex(variant.attributes, LAMBDA attr : attr.code = codes[k])
        IN  /\ a # 0
            /\ variant.attributes[a].value_index = selectedByCode(options, selections, codes[k])

(* findMatchingVariant(prod, selections): the position of the variant in
   prod.variants, 0 for null / undefined *)
findMatchingVariant(prod, selections) ==
    LET options == prod.configurable_options
        variants == prod.variants
        codes == requiredCodes(options)
    IN  IF Len(options) = 0 \/ Len(variants) = 0 THEN 0
        ELSE IF ~(\A k \in 1..Len(codes) :
                     selectedByCode(options, selections, codes[k]) # NoValue) THEN 0
        ELSE findIndex(variants, LAMBDA v : variantMatches(v, options, selections))

FmvIdle == [prod |-> [configurable_options |-> <<>>, variants |-> <<>>],
            selections |-> [i \in OptionIds |-> NoValue], applied |-> FALSE, result |-> 0]

(* findMatchingVariant is applied to the drawn product and selections *)
ApplyFindMatchingVariant ==
    /\ ~fmv.applied
    /\ fmv' = [fmv EXCEPT !.applied = TRUE,
                          !.result = findMatchingVariant(fmv.prod, fmv.selections)]
    /\ UNCHANGED <<localStorage, nextCartId, rest, lookup, svc, page, now, cartRev, pd, loads,
                 calls, rpd, listing, prov, chk>>

(* ======================================================================= *)
(* GraphQL service: createEmptyCart, getGuestCartId, addSimpleProductToCart,*)
(* addConfigurableProductToCart, addToGuestCart (magentoApi.js:336-566)     *)
(* ======================================================================= *)

(* what the platform can answer to a GraphQL request: the HTTP status is ok
   or not, the body is JSON or not, the JSON carries an errors array (empty
   or not) and the data asked for (or not); or the fetch itself rejects *)
GqlResponses ==
    [kind : {"response"}, ok : BOOLEAN, json : {TRUE},
     errors : {<<>>, <<"Internal error">>}, data : BOOLEAN]
    \cup [kind : {"response"}, ok : BOOLEAN, json : {FALSE}, errors : {<<>>}, data : {FALSE}]
    \cup {[kind |-> "networkError", ok |-> FALSE, json |-> FALSE, errors |-> <<>>, data |-> FALSE]}

(* the platform carried the request out: a response with an ok status, a
   JSON body, no errors and the data *)
accepted(resp) ==
    resp.kind = "response" /\ resp.ok /\ resp.json /\ resp.errors = <<>> /\ resp.data

(* the envelope checks of createEmptyCart and fetchCart: the message thrown,
   <<>> when the response passes: !response.ok, response.json(), gql.errors *)
checkedEnvelope(resp) ==
    IF resp.kind = "networkError" THEN <<"Failed to fetch">>
    ELSE IF ~resp.ok THEN <<"HTTP error! status: ", "500">>
    ELSE IF ~resp.json THEN <<"Unexpected token">>
    ELSE resp.errors

(* the envelope checks of addSimpleProductToCart and
   addConfigurableProductToCart: response.json(), result.errors?.length *)
addEnvelope(resp) ==
    IF resp.kind = "networkError" THEN <<"Failed to fetch">>
    ELSE IF ~resp.json THEN <<"Unexpected token">>
    ELSE resp.errors

(* createEmptyCart without the check of the cart id it got *)
createEmptyCart_Unchecked(resp, newId) ==
    LET thrown == checkedEnvelope(resp)
    IN  IF thrown # <<>>
        THEN [cartId |-> Null, error |-> wrap("Failed to create empty cart: ", thrown)]
        ELSE [cartId |-> IF resp.data THEN newId ELSE Null, error |-> <<>>]

(* createEmptyCart on the response resp, the platform's new cart having the
   id newId: the cart id it stores and returns (Null when it throws) and the
   message of the error it throws *)
createEmptyCart(resp, newId) ==
    LET thrown == checkedEnvelope(resp)
        cartId == IF thrown = <<>> /\ resp.data THEN newId ELSE Null
    IN  IF thrown # <<>>
        THEN [cartId |-> Null, error |-> wrap("Failed to create empty cart: ", thrown)]
        ELSE IF cartId = Null
        THEN [cartId |-> Null,
              error |-> wrap("Failed to create empty cart: ",
                             <<"Failed to create empty cart: No cart ID returned">>)]
        ELSE [cartId |-> cartId, error |-> <<>>]

SvcIdle == [op |-> "none", pc |-> "idle", caller |-> "none",
            sku |-> "none", parentSku |-> "none", qty |-> 0, configurable_options |-> <<>>,
            reqs |-> <<>>, error |-> <<>>, ret |-> Null,
            atCall |-> [guest_cart_id |-> Null, cart_data |-> NoItem,
                        cart_data_timestamp |-> NoItem, now |-> 0],
            doneAt |-> 0]

svcIssue(s, api, cartId) == [s EXCEPT !.pc = api, !.reqs = issue(@, api, cartId)]

(* what the caller of getGuestCartId does with the cart id it got: a direct
   call resolves with it, an add operation issues its request for that cart *)
gotGuestCartId(s, cartId, t) ==
    IF s.op \in {"createEmptyCart", "getGuestCartId"}
    THEN [s EXCEPT !.pc = "resolved", !.ret = cartId, !.doneAt = t]
    ELSE svcIssue(s, "add", cartId)

(* getGuestCartId asking for a new cart whatever is stored *)
getGuestCartId_AlwaysCreates(s, storage, t) == svcIssue(s, "create", Null)

(* getGuestCartId (magentoApi.js:389): the stored id is returned, or
   createEmptyCart is requested *)
getGuestCartId(s, storage, t) ==
    IF storage.guest_cart_id # Null
    THEN gotGuestCartId(s, storage.guest_cart_id, t)
    ELSE svcIssue(s, "create", Null)

(* a value JavaScript takes for true in a || b; NaN is what parseInt('') gives *)
NaN == -2
truthy(x) == x \notin {0, NaN, NoValue}
orElse(a, b) == IF truthy(a) THEN a ELSE b

(* selectedOptions.map(opt => ({option_id: opt.id || opt.option_id,
   option_value: opt.value_index || opt.option_value})), for options given as
   {id, value_index}: their option_id and option_value are undefined *)
formattedOptions(selectedOptions) ==
    [i \in 1..Len(selectedOptions) |->
        [option_id |-> orElse(selectedOptions[i].id, NoValue),
         option_value |-> orElse(selectedOptions[i].value_index, NoValue)]]

(* addToGuestCart(sku, quantity, productType, selectedOptions, parentSku);
   the variables of the mutation of addConfigurableProductToCart are
   {cartId, parentSku, childSku, quantity, selectedOptions} *)
addToGuestCart(caller, sku, qty, productType, selectedOptions, parentSku, storage) ==
    IF productType = "ConfigurableProduct"
    THEN IF parentSku = "none"
         THEN [SvcIdle EXCEPT !.op = "addConfigurable", !.caller = caller, !.pc = "rejected",
                              !.error = <<"Parent SKU is required for configurable products">>]
         ELSE getGuestCartId([SvcIdle EXCEPT !.op = "addConfigurable", !.caller = caller,
                                             !.sku = sku, !.parentSku = parentSku, !.qty = qty,
                                             !.configurable_options =
                                                 formattedOptions(selectedOptions)],
                             storage, 0)
    ELSE getGuestCartId([SvcIdle EXCEPT !.op = "addSimple", !.caller = caller,
                                        !.sku = sku, !.qty = qty], storage, 0)

(* the page's addConfigurableToGuestCart(parentSku, childSku, quantity) *)
addConfigurableToGuestCart(caller, parentSku, childSku, qty, storage) ==
    addToGuestCart(caller, childSku, qty, "ConfigurableProduct", <<>>, parentSku, storage)

(* ======================================================================= *)
(* components/ProductDetailPage.js (lines 1-338)                           *)
(* ======================================================================= *)

(* the products getProductDetails can deliver: a simple product, a
   configurable product with one combination (color 2, size 2) missing and
   one variant out of stock, a configurable product as the product query
   without attribute_code and variants returns it, and a product out of stock *)
Catalog == <<
    [sku |-> "SKU-A", name |-> "Simple", stock_status |-> "IN_STOCK",
     typename |-> "SimpleProduct",
     configurable_options |-> <<>>, variants |-> <<>>],
    [sku |-> "SKU-B", name |-> "Configurable", stock_status |-> "IN_STOCK",
     typename |-> "ConfigurableProduct",
     configurable_options |-> <<[id |-> 1, attribute_code |-> "color"],
                                [id |-> 2, attribute_code |-> "size"]>>,
     variants |-> <<
        [product |-> [sku |-> "SKU-B-1-1", stock_status |-> "undefined"],
         attributes |-> <<[code |-> "color", value_index |-> 1],
                          [code |-> "size", value_index |-> 1]>>],
        [product |-> [sku |-> "SKU-B-1-2", stock_status |-> "undefined"],
         attributes |-> <<[code |-> "color", value_index |-> 1],
                          [code |-> "size", value_index |-> 2]>>],
        [product |-> [sku |-> "SKU-B-2-1", stock_status |-> "OUT_OF_STOCK"],
         attributes |-> <<[code |-> "color", value_index |-> 2],
                          [code |-> "size", value_index |-> 1]>>]>>],
    [sku |-> "SKU-C", name |-> "Bare options", stock_status |-> "IN_STOCK",
     typename |-> "undefined",
     configurable_options |-> <<[id |-> 1, attribute_code |-> NoCode]>>,
     variants |-> <<>>],
    [sku |-> "SKU-D", name |-> "Sold out", stock_status |-> "OUT_OF_STOCK",
     typename |-> "SimpleProduct",
     configurable_options |-> <<>>, variants |-> <<>>] >>

PageInit == [product |-> 0, loading |-> TRUE, error |-> FALSE, quantity |-> 1,
             addingToCart |-> FALSE, cartMessage |-> "null",
             selectedOptions |-> [i \in OptionIds |-> NoValue],
             selectedVariant |-> 0, variants |-> <<>>, timer |-> FALSE]

pageProduct(pg) == Catalog[pg.product]

(* the effect left out: selectedVariant keeps its old value *)
selectedVariantEffect_Stale(pg) == pg

(* the effect on [product, selectedOptions]: selectedVariant is recomputed *)
selectedVariantEffect(pg) ==
    [pg EXCEPT !.selectedVariant =
        IF pg.product # 0 /\ Len(pageProduct(pg).configurable_options) > 0
        THEN findMatchingVariant(pageProduct(pg), pg.selectedOptions)
        ELSE 0]

(* isInStock() *)
isInStock(pg) ==
    IF pg.selectedVariant # 0
       /\ pageProduct(pg).variants[pg.selectedVariant].product.stock_status # "undefined"
    THEN pageProduct(pg).variants[pg.selectedVariant].product.stock_status = "IN_STOCK"
    ELSE pg.product # 0 /\ pageProduct(pg).stock_status = "IN_STOCK"

(* the page renders the product (not the loading, error or not-found view) *)
productRendered(pg) == ~pg.loading /\ ~pg.error /\ pg.product # 0

(* the disabled attribute of the add-to-cart button *)
buttonDisabled(pg) ==
    pg.addingToCart
    \/ (Len(pageProduct(pg).configurable_options) > 0 /\ pg.selectedVariant = 0)

(* the add-to-cart button is rendered and enabled *)
addToCartEnabled(pg) == productRendered(pg) /\ isInStock(pg) /\ ~buttonDisabled(pg)

(* fetchProductDetails: getProductDetails delivered the product p *)
FetchProductDetailsOk(p) ==
    /\ page.loading /\ page.product = 0 /\ ~page.error
    /\ page' = selectedVariantEffect([page EXCEPT !.product = p, !.loading = FALSE])
    /\ UNCHANGED <<localStorage, nextCartId, rest, lookup, fmv, svc, now, cartRev, pd, loads,
                 calls, rpd, listing, prov, chk>>

(* fetchProductDetails: getProductDetails threw *)
FetchProductDetailsFail ==
    /\ page.loading /\ page.product = 0 /\ ~page.error
    /\ page' = [page EXCEPT !.error = TRUE, !.loading = FALSE]
    /\ UNCHANGED <<localStorage, nextCartId, rest, lookup, fmv, svc, now, cartRev, pd, loads,
                 calls, rpd, listing, prov, chk>>

(* handleOptionChange(optionId, valueIndex), from the select of the option *)
HandleOptionChange(optionId, valueIndex) ==
    /\ productRendered(page)
    /\ ~page.addingToCart
    /\ \E i \in 1..Len(pageProduct(page).configurable_options) :
          pageProduct(page).configurable_options[i].id = optionId
    /\ page' = selectedVariantEffect([page EXCEPT !.selectedOptions[optionId] = valueIndex])
    /\ UNCHANGED <<localStorage, nextCartId, rest, lookup, fmv, svc, now, cartRev, pd, loads,
                 calls, rpd, listing, prov, chk>>

(* handleQuantityChange *)
HandleQuantityChange(value) ==
    /\ productRendered(page) /\ isInStock(page)
    /\ ~page.addingToCart
    /\ page' = IF value > 0 THEN [page EXCEPT !.quantity = value] ELSE page
    /\ UNCHANGED <<localStorage, nextCartId, rest, lookup, fmv, svc, now, cartRev, pd, loads,
                 calls, rpd, listing, prov, chk>>

(* the catch and finally blocks of handleAddToCart *)
handleAddToCartFailed(pg) == [pg EXCEPT !.cartMessage = "error", !.addingToCart = FALSE]

(* the end of the try block and the finally block of handleAddToCart *)
handleAddToCartSucceeded(pg) ==
    [pg EXCEPT !.cartMessage = "success", !.addingToCart = FALSE, !.timer = TRUE]

(* handleAddToCart once the service call has settled as s *)
handleAddToCartSettled(pg, s) ==
    IF s.caller # "page" \/ s.pc \notin {"resolved", "rejected"} THEN pg
    ELSE IF s.pc = "resolved" THEN handleAddToCartSucceeded(pg)
    ELSE handleAddToCartFailed(pg)

(* handleAddToCart, from a click on the enabled button, up to its await *)
HandleAddToCart ==
    /\ addToCartEnabled(page)
    /\ LET pg == [page EXCEPT !.addingToCart = TRUE, !.cartMessage = "null"]
           prod == pageProduct(page)
           variant == findMatchingVariant(prod, page.selectedOptions)
       IN  IF Len(prod.configurable_options) > 0
           THEN IF \E i \in 1..Len(prod.configurable_options) :
                      page.selectedOptions[prod.configurable_options[i].id] = NoValue
                THEN /\ page' = handleAddToCartFailed(pg)
                     /\ svc' = svc
                ELSE IF variant = 0
                THEN /\ page' = handleAddToCartFailed(pg)
                     /\ svc' = svc
                ELSE /\ svc' = addConfigurableToGuestCart("page", prod.sku,
                                   prod.variants[variant].product.sku, page.quantity,
                                   localStorage)
                     /\ page' = handleAddToCartSettled(pg, svc')
           ELSE /\ svc' = addToGuestCart("page", prod.sku, page.quantity,
                                         "SimpleProduct", <<>>, "none", localStorage)
                /\ page' = handleAddToCartSettled(pg, svc')
    /\ UNCHANGED <<localStorage, nextCartId, rest, lookup, fmv, now, cartRev, pd, loads,
                 calls, rpd, listing, prov, chk>>

(* a timeout set after a success fires: setCartMessage(null) *)
CartMessageTimeout ==
    /\ page.timer
    /\ \E more \in BOOLEAN : page' = [page EXCEPT !.cartMessage = "null", !.timer = more]
    /\ UNCHANGED <<localStorage, nextCartId, rest, lookup, fmv, svc, now, cartRev, pd, loads,
                 calls, rpd, listing, prov, chk>>

(* the answer to the createEmptyCart request of the call in flight *)
SvcCreateResponse ==
    /\ svc.pc = "create"
    /\ \E resp \in GqlResponses :
         LET r == createEmptyCart(resp, nextCartId)
             s == [svc EXCEPT !.reqs = setLast(@, resp)]
         IN  /\ resp.data => nextCartId <= MaxCartId
             /\ nextCartId' = IF resp.data THEN nextCartId + 1 ELSE nextCartId
             /\ IF r.error = <<>>
                THEN /\ localStorage' = setGuestCartId(localStorage, r.cartId)
                     /\ svc' = gotGuestCartId(s, r.cartId, now)
                ELSE /\ localStorage' = localStorage
                     /\ svc' = [s EXCEPT !.pc = "rejected", !.error = r.error,
                                         !.doneAt = now]
    /\ page' = handleAddToCartSettled(page, svc')
    /\ UNCHANGED <<rest, lookup, fmv, now, cartRev, pd, loads,
                 calls, rpd, listing, prov, chk>>

(* the answer to the add request of addSimpleProductToCart or
   addConfigurableProductToCart *)
SvcAddResponse ==
    /\ svc.pc = "add"
    /\ \E resp \in GqlResponses :
         LET thrown == addEnvelope(resp)
             s == [svc EXCEPT !.reqs = setLast(@, resp)]
         IN
         /\ svc' = IF thrown = <<>>
                    THEN [s EXCEPT !.pc = "resolved", !.ret = 1, !.doneAt = now]
                    ELSE [s EXCEPT !.pc = "rejected", !.error = thrown, !.doneAt = now]
         /\ accepted(resp) => cartRev < MaxRev
         /\ cartRev' = IF accepted(resp) THEN cartRev + 1 ELSE cartRev
    /\ page' = handleAddToCartSettled(page, svc')
    /\ UNCHANGED <<localStorage, nextCartId, rest, lookup, fmv, now, pd, loads,
                 calls, rpd, listing, prov, chk>>

(* ======================================================================= *)
(* The product detail page that sends parent and child SKU                  *)
(* (unnamed/part_006), on the same view state                               *)
(* ======================================================================= *)

(* the products getProductDetails (magentoApi.js:221) delivers to this page:
   those of the catalog that carry __typename *)
ChildCatalog == {p \in 1..Len(Catalog) : Catalog[p].typename # "undefined"}

(* isConfigurableProduct() *)
isConfigurableProduct(pg) ==
    pg.product # 0 /\ pageProduct(pg).typename = "ConfigurableProduct"

(* the test of variants.find in handleOptionChange and handleAddToCart: every
   attribute of the variant belongs to an option whose selected value it has *)
childVariantMatches(variant, options, selections) ==
    \A a \in 1..Len(variant.attributes) :
        LET o == findIndex(options, LAMBDA opt : opt.attribute_code # NoCode
                                                 /\ opt.attribute_code = variant.attributes[a].code)
        IN  /\ o # 0
            /\ selections[options[o].id] # NaN
            /\ selections[options[o].id] = variant.attributes[a].value_index

(* variants.find(...): the position of the first matching variant, 0 if none *)
childFindVariant(variants, options, selections) ==
    findIndex(variants, LAMBDA v : childVariantMatches(v, options, selections))

(* product.configurable_options.every(option => selectedOptions[option.id]) *)
childAllOptionsSelected(pg) ==
    \A i \in 1..Len(pageProduct(pg).configurable_options) :
        truthy(pg.selectedOptions[pageProduct(pg).configurable_options[i].id])

(* isInStock() of this page *)
childIsInStock(pg) == pg.product # 0 /\ pageProduct(pg).stock_status = "IN_STOCK"

(* canAddToCart() *)
canAddToCart(pg) ==
    IF ~childIsInStock(pg) THEN FALSE
    ELSE IF ~isConfigurableProduct(pg) THEN TRUE
    ELSE childAllOptionsSelected(pg)

(* the add-to-cart button of this page is rendered and enabled *)
childButtonEnabled(pg) ==
    productRendered(pg) /\ childIsInStock(pg) /\ ~pg.addingToCart /\ canAddToCart(pg)

(* Object.entries(selectedOptions).map(([optionId, valueIndex]) =>
   ({id: parseInt(optionId), value_index: parseInt(valueIndex)})):
   the keys that were set, in ascending order *)
childOptions(selections) ==
    LET keys == SelectSeq([i \in 1..Cardinality(OptionIds) |-> i],
                          LAMBDA k : selections[k] # NoValue)
    IN  [i \in 1..Len(keys) |-> [id |-> keys[i], value_index |-> selections[keys[i]]]]

(* skuToAdd of handleAddToCart for a configurable product: the SKU of
   selectedVariant, else of the variant of the variants state that matches
   the selected options, else product.sku *)
skuToAdd(pg) ==
    LET prod == pageProduct(pg)
        matchingVariant == childFindVariant(pg.variants, prod.configurable_options,
                                            pg.selectedOptions)
    IN  IF pg.selectedVariant # 0 THEN prod.variants[pg.selectedVariant].product.sku
        ELSE IF matchingVariant # 0 THEN pg.variants[matchingVariant].product.sku
        ELSE prod.sku

(* fetchProductDetails: getProductDetails delivered the product p; for a
   configurable product getConfigurableProductVariants is awaited next *)
ChildProductResponse(p) ==
    /\ page.loading /\ page.product = 0 /\ ~page.error
    /\ p \in ChildCatalog
    /\ page' = IF Catalog[p].typename = "ConfigurableProduct"
               THEN [page EXCEPT !.product = p]
               ELSE [page EXCEPT !.product = p, !.loading = FALSE]
    /\ UNCHANGED <<localStorage, nextCartId, rest, lookup, fmv, svc, now, cartRev, pd, loads,
                 calls, rpd, listing, prov, chk>>

(* fetchProductDetails: getProductDetails threw *)
ChildProductFail ==
    /\ page.loading /\ page.product = 0 /\ ~page.error
    /\ page' = [page EXCEPT !.error = TRUE, !.loading = FALSE]
    /\ UNCHANGED <<localStorage, nextCartId, rest, lookup, fmv, svc, now, cartRev, pd, loads,
                 calls, rpd, listing, prov, chk>>

(* getConfigurableProductVariants settled: product.variants, or [] when its
   request failed (the error is caught there) *)
ChildVariantsResponse(ok) ==
    /\ page.loading /\ page.product # 0
    /\ page' = [page EXCEPT !.variants = IF ok THEN pageProduct(page).variants ELSE <<>>,
                            !.loading = FALSE]
    /\ UNCHANGED <<localStorage, nextCartId, rest, lookup, fmv, svc, now, cartRev, pd, loads,
                 calls, rpd, listing, prov, chk>>

(* handleOptionChange(optionId, valueIndex): valueIndex is parseInt of the
   value of the select, NaN for its placeholder *)
ChildHandleOptionChange(optionId, valueIndex) ==
    /\ productRendered(page)
    /\ isConfigurableProduct(page)
    /\ ~page.addingToCart
    /\ \E i \in 1..Len(pageProduct(page).configurable_options) :
          pageProduct(page).configurable_options[i].id = optionId
    /\ LET newSelectedOptions == [page.selectedOptions EXCEPT ![optionId] = valueIndex]
       IN  page' = [page EXCEPT !.selectedOptions = newSelectedOptions,
                                !.selectedVariant =
                                    childFindVariant(pageProduct(page).variants,
                                                     pageProduct(page).configurable_options,
                                                     newSelectedOptions)]
    /\ UNCHANGED <<localStorage, nextCartId, rest, lookup, fmv, svc, now, cartRev, pd, loads,
                 calls, rpd, listing, prov, chk>>

(* handleAddToCart of this page, from a click on the enabled button, up to
   its await *)
ChildHandleAddToCart ==
    /\ childButtonEnabled(page)
    /\ LET pg == [page EXCEPT !.addingToCart = TRUE, !.cartMessage = "null"]
           prod == pageProduct(page)
       IN  IF prod.typename = "ConfigurableProduct"
           THEN svc' = addToGuestCart("page", skuToAdd(page), page.quantity,
                                      "ConfigurableProduct", childOptions(page.selectedOptions),
                                      prod.sku, localStorage)
           ELSE svc' = addToGuestCart("page", prod.sku, page.quantity,
                                      "SimpleProduct", <<>>, "none", localStorage)
    /\ page' = handleAddToCartSettled(
                  [page EXCEPT !.addingToCart = TRUE, !.cartMessage = "null"], svc')
    /\ UNCHANGED <<localStorage, nextCartId, rest, lookup, fmv, now, cartRev, pd, loads,
                 calls, rpd, listing, prov, chk>>

(* ======================================================================= *)
(* GraphQL service: fetchCart, getCartData, clearCartCache                 *)
(* (magentoApi.js:602-724), called directly by Minicart, Cart and CartDemo *)
(* ======================================================================= *)

(* const fiveMinutes = 5 * 60 * 1000 *)
fiveMinutes == 5 * 60 * 1000
(* steps of the clock *)
TickSteps == {149999, 150000}

(* { items: [], prices: { grand_total: { value: 0, currency: 'USD' } } } *)
EmptyCart == 0
(* the cart fetchCart returns for a response without data.cart: null *)
NullCart == -1

RECURSIVE toString(_)
(* Number.prototype.toString for a non-negative integer: its decimal digits *)
toString(n) == IF n < 10 THEN <<n>> ELSE toString(n \div 10) \o <<n % 10>>

RECURSIVE parseInt(_)
(* parseInt of a non-empty string of decimal digits *)
parseInt(str) ==
    IF Len(str) = 1 THEN str[1]
    ELSE 10 * parseInt(SubSeq(str, 1, Len(str) - 1)) + str[Len(str)]

(* JSON.stringify of a cart / JSON.parse of what it gave *)
JSONstringify(cart) == <<"cart", cart>>
JSONparse(text) == text[2]

(* the test of the cache: '<=' where the code has '<' *)
cacheIsFresh_Inclusive(storage, t) ==
    /\ storage.cart_data # NoItem
    /\ storage.cart_data_timestamp # NoItem
    /\ (t - parseInt(storage.cart_data_timestamp)) <= fiveMinutes

(* getCartData: cachedCart && cacheTimestamp && (now - parseInt(cacheTimestamp)) < fiveMinutes *)
cacheIsFresh(storage, t) ==
    /\ storage.cart_data # NoItem
    /\ storage.cart_data_timestamp # NoItem
    /\ (t - parseInt(storage.cart_data_timestamp)) < fiveMinutes

(* what a direct call remembers of the moment it was made *)
calledAt(op, storage, t) ==
    [SvcIdle EXCEPT !.op = op, !.caller = "direct",
                    !.atCall = [guest_cart_id |-> storage.guest_cart_id,
                                cart_data |-> storage.cart_data,
                                cart_data_timestamp |-> storage.cart_data_timestamp,
                                now |-> t],
                    !.doneAt = t]

(* getCartData(), up to its await *)
getCartData(storage, t) ==
    LET s == calledAt("getCartData", storage, t) IN
    IF cacheIsFresh(storage, t)
    THEN [s EXCEPT !.pc = "resolved", !.ret = JSONparse(storage.cart_data)]
    ELSE IF storage.guest_cart_id = Null
    THEN [s EXCEPT !.pc = "resolved", !.ret = EmptyCart]
    ELSE svcIssue(s, "fetchCart", storage.guest_cart_id)

svcSettled == svc.pc \in {"idle", "resolved", "rejected"}

(* the catch block ignoring the cached snapshot *)
getCartDataCatch_Empty(storage) == EmptyCart

(* the catch block of getCartData: the cached snapshot if there is one,
   however old, else the empty cart *)
getCartDataCatch(storage) ==
    IF storage.cart_data # NoItem THEN JSONparse(storage.cart_data) ELSE EmptyCart

(* time passes *)
Tick ==
    /\ \E step \in TickSteps :
         /\ now + step <= MaxNow
         /\ now' = now + step
    /\ UNCHANGED <<localStorage, nextCartId, rest, lookup, fmv, svc, page, cartRev, pd, loads,
                 calls, rpd, listing, prov, chk>>

(* a call of getCartData (Minicart.loadCartData, Cart.loadCartData) *)
GetCartData ==
    /\ svcSettled
    /\ svc' = getCartData(localStorage, now)
    /\ UNCHANGED <<localStorage, nextCartId, rest, lookup, fmv, page, now, cartRev, pd, loads,
                 calls, rpd, listing, prov, chk>>

(* the answer to the cart query of fetchCart, inside getCartData *)
SvcFetchCartResponse ==
    /\ svc.pc = "fetchCart"
    /\ \E resp \in GqlResponses :
         LET thrown == checkedEnvelope(resp)
             s == [svc EXCEPT !.reqs = setLast(@, resp), !.doneAt = now]
             cartData == IF resp.data THEN cartRev ELSE NullCart
         IN  IF thrown = <<>>
             THEN /\ localStorage' = [localStorage EXCEPT
                                        !.cart_data = JSONstringify(cartData),
                                        !.cart_data_timestamp = toString(now)]
                  /\ svc' = [s EXCEPT !.pc = "resolved", !.ret = cartData]
             ELSE /\ localStorage' = localStorage
                  /\ svc' = [s EXCEPT !.pc = "resolved",
                                      !.error = wrap("Failed to fetch cart: ", thrown),
                                      !.ret = getCartDataCatch(localStorage)]
    /\ UNCHANGED <<nextCartId, rest, lookup, fmv, page, now, cartRev, pd, loads,
                 calls, rpd, listing, prov, chk>>

(* a direct call of createEmptyCart (CartDemo.createEmptyCart) *)
CallCreateEmptyCart ==
    /\ svcSettled
    /\ svc' = svcIssue(calledAt("createEmptyCart", localStorage, now), "create", Null)
    /\ UNCHANGED <<localStorage, nextCartId, rest, lookup, fmv, page, now, cartRev, pd, loads,
                 calls, rpd, listing, prov, chk>>

(* a direct call of getGuestCartId() *)
CallGetGuestCartId ==
    /\ svcSettled
    /\ svc' = getGuestCartId(calledAt("getGuestCartId", localStorage, now), localStorage, now)
    /\ UNCHANGED <<localStorage, nextCartId, rest, lookup, fmv, page, now, cartRev, pd, loads,
                 calls, rpd, listing, prov, chk>>

(* a direct call of addToGuestCart(sku, quantity) (ProductDetail.handleAddToCart) *)
CallAddToGuestCart(sku, qty) ==
    /\ svcSettled
    /\ svc' = addToGuestCart("direct", sku, qty, "SimpleProduct", <<>>, "none", localStorage)
    /\ UNCHANGED <<localStorage, nextCartId, rest, lookup, fmv, page, now, cartRev, pd, loads,
                 calls, rpd, listing, prov, chk>>

(* a synchronous storage operation ends the record of a settled call *)
afterStorageOperation(s) == IF s.pc \in {"resolved", "rejected"} THEN SvcIdle ELSE s

(* clearCartCache() (Cart.handleRefresh) *)
ClearCartCache ==
    /\ localStorage' = [localStorage EXCEPT !.cart_data = NoItem,
                                            !.cart_data_timestamp = NoItem]
    /\ svc' = afterStorageOperation(svc)
    /\ UNCHANGED <<nextCartId, rest, lookup, fmv, page, now, cartRev, pd, loads,
                 calls, rpd, listing, prov, chk>>

(* CartDemo.clearCart: localStorage.removeItem('guest_cart_id') *)
ClearCart ==
    /\ localStorage' = removeGuestCartId(localStorage)
    /\ svc' = afterStorageOperation(svc)
    /\ UNCHANGED <<nextCartId, rest, lookup, fmv, page, now, cartRev, pd, loads,
                 calls, rpd, listing, prov, chk>>

(* ======================================================================= *)
(* components/ProductDetails.js: the load effect (lines 15-40)             *)
(* ======================================================================= *)

(* useState(null) of stock, and the value the caught stock request gives *)
NullStock == "null"
NoProduct == "null"

PdInit == [sku |-> "SKU-A", product |-> NoProduct, stock |-> NullStock,
           loading |-> TRUE, error |-> FALSE, unmounted |-> FALSE,
           productFrom |-> 0, stockFrom |-> 0]

(* fetchProductBySku(sku) and fetchStockBySku(sku).catch(() => null) are both
   called while the array given to Promise.all is built *)
issueRequests(sku) ==
    [sku |-> sku, mounted |-> TRUE, p |-> "pending", s |-> "pending", outcome |-> "pending"]

(* Promise.all fulfilling without waiting for the stock request *)
promiseAllFulfilled_ProductOnly(l) == l.p = "ok"

(* Promise.all fulfils once the product request is fulfilled and the stock
   request is fulfilled or caught *)
promiseAllFulfilled(l) == l.p = "ok" /\ l.s \in {"ok", "caught"}

(* Promise.all rejects as soon as the product request is rejected *)
promiseAllRejected(l) == l.p = "fail"

(* the mounted check left out *)
stillMounted_Unchecked(l) == TRUE

(* if (!mounted) return / if (mounted) setLoading(false) *)
stillMounted(l) == l.mounted

(* the continuation of load after the await, for run i in the state l *)
loadContinues(i, l) ==
    IF l.outcome # "pending" THEN /\ loads' = [loads EXCEPT ![i] = l]
                                  /\ pd' = pd
    ELSE IF promiseAllRejected(l)
    THEN IF stillMounted(l)
         THEN /\ pd' = [pd EXCEPT !.error = TRUE, !.loading = FALSE]
              /\ loads' = [loads EXCEPT ![i] = [l EXCEPT !.outcome = "error"]]
         ELSE /\ pd' = pd
              /\ loads' = [loads EXCEPT ![i] = [l EXCEPT !.outcome = "dropped"]]
    ELSE IF promiseAllFulfilled(l)
    THEN IF stillMounted(l)
         THEN /\ pd' = [pd EXCEPT !.product = l.sku,
                                  !.stock = IF l.s = "ok" THEN l.sku ELSE NullStock,
                                  !.productFrom = i, !.stockFrom = i,
                                  !.loading = FALSE]
              /\ loads' = [loads EXCEPT ![i] = [l EXCEPT !.outcome = "success"]]
         ELSE /\ pd' = pd
              /\ loads' = [loads EXCEPT ![i] = [l EXCEPT !.outcome = "dropped"]]
    ELSE /\ loads' = [loads EXCEPT ![i] = l]
         /\ pd' = pd

(* the product request of run i settles *)
LoadProductResponse(i, ok) ==
    /\ i \in 1..Len(loads)
    /\ loads[i].p = "pending"
    /\ loadContinues(i, [loads[i] EXCEPT !.p = IF ok THEN "ok" ELSE "fail"])
    /\ UNCHANGED <<localStorage, nextCartId, rest, lookup, fmv, svc, page, now, cartRev,
                 calls, rpd, listing, prov, chk>>

(* the stock request of run i settles; a rejection is caught and gives null *)
LoadStockResponse(i, ok) ==
    /\ i \in 1..Len(loads)
    /\ loads[i].s = "pending"
    /\ loadContinues(i, [loads[i] EXCEPT !.s = IF ok THEN "ok" ELSE "caught"])
    /\ UNCHANGED <<localStorage, nextCartId, rest, lookup, fmv, svc, page, now, cartRev,
                 calls, rpd, listing, prov, chk>>

(* the cleanup of the effect: mounted = false in the closure of the last run *)
cleanup(ls) == [ls EXCEPT ![Len(ls)].mounted = FALSE]

(* the route changes to another SKU: cleanup of the old effect, then the
   effect runs again: setLoading(true), setError(null), both requests *)
ChangeSku(sku) ==
    /\ ~pd.unmounted
    /\ sku # pd.sku
    /\ Len(loads) < MaxLoads
    /\ loads' = Append(cleanup(loads), issueRequests(sku))
    /\ pd' = [pd EXCEPT !.sku = sku, !.loading = TRUE, !.error = FALSE]
    /\ UNCHANGED <<localStorage, nextCartId, rest, lookup, fmv, svc, page, now, cartRev,
                 calls, rpd, listing, prov, chk>>

(* the component unmounts *)
Unmount ==
    /\ ~pd.unmounted
    /\ loads' = cleanup(loads)
    /\ pd' = [pd EXCEPT !.unmounted = TRUE]
    /\ UNCHANGED <<localStorage, nextCartId, rest, lookup, fmv, svc, page, now, cartRev,
                 calls, rpd, listing, prov, chk>>

(* ======================================================================= *)
(* Two overlapping calls of the GraphQL service                            *)
(* ======================================================================= *)

(* the two callers; each has at most one call in flight *)
Callers == 1..2

CallsIdle == [i \in Callers |-> SvcIdle]

(* a call of getGuestCartId() or addToGuestCart(sku) up to its first await;
   it remembers the guest_cart_id it read *)
overlapCall(op, sku, storage, t) ==
    LET s == IF op = "getGuestCartId"
             THEN getGuestCartId(calledAt("getGuestCartId", storage, t), storage, t)
             ELSE addToGuestCart("direct", sku, 1, "SimpleProduct", <<>>, "none", storage)
    IN  [s EXCEPT !.atCall.guest_cart_id = storage.guest_cart_id]

(* caller i calls the service while the other caller's call may be in flight *)
OverlapCall(i, op, sku) ==
    /\ calls[i].pc \in {"idle", "resolved", "rejected"}
    /\ calls' = [calls EXCEPT ![i] = overlapCall(op, sku, localStorage, now)]
    /\ UNCHANGED <<localStorage, nextCartId, rest, lookup, fmv, svc, page, now, cartRev, pd, loads,
                 rpd, listing, prov, chk>>

(* the answer to the createEmptyCart request of caller i *)
OverlapCreateResponse(i) ==
    /\ calls[i].pc = "create"
    /\ \E resp \in GqlResponses :
         LET r == createEmptyCart(resp, nextCartId)
             s == [calls[i] EXCEPT !.reqs = setLast(@, resp)]
         IN  /\ resp.data => nextCartId <= MaxCartId
             /\ nextCartId' = IF resp.data THEN nextCartId + 1 ELSE nextCartId
             /\ IF r.error = <<>>
                THEN /\ localStorage' = setGuestCartId(localStorage, r.cartId)
                     /\ calls' = [calls EXCEPT ![i] = gotGuestCartId(s, r.cartId, now)]
                ELSE /\ localStorage' = localStorage
                     /\ calls' = [calls EXCEPT ![i] = [s EXCEPT !.pc = "rejected",
                                                                !.error = r.error]]
    /\ UNCHANGED <<rest, lookup, fmv, svc, page, now, cartRev, pd, loads,
                 rpd, listing, prov, chk>>

(* the answer to the add request of caller i *)
OverlapAddResponse(i) ==
    /\ calls[i].pc = "add"
    /\ \E resp \in GqlResponses :
         LET thrown == addEnvelope(resp)
             s == [calls[i] EXCEPT !.reqs = setLast(@, resp)]
         IN  calls' = [calls EXCEPT ![i] =
                          IF thrown = <<>>
                          THEN [s EXCEPT !.pc = "resolved", !.ret = 1]
                          ELSE [s EXCEPT !.pc = "rejected", !.error = thrown]]
    /\ UNCHANGED <<localStorage, nextCartId, rest, lookup, fmv, svc, page, now, cartRev, pd, loads,
                 rpd, listing, prov, chk>>

(* ======================================================================= *)
(* REST product detail page (unnamed/part_005)                             *)
(* ======================================================================= *)

(* the state of the component after mounting; guestCartId is the item
   'guestCartId' of local storage, which only this page reads and writes;
   closure is the cartId the running handleAddToCart was created with *)
RpdInit == [sku |-> "SKU-A", product |-> "null", stockInfo |-> "null", loading |-> TRUE, error |-> FALSE,
            quantity |-> 1, addingToCart |-> FALSE, cartMessage |-> "", timer |-> FALSE,
            cartId |-> Null, guestCartId |-> Null,
            pc |-> "idle", closure |-> Null, reqs |-> <<>>]

(* useState(localStorage.getItem('guestCartId')) when the component mounts *)
rpdMount(sku, stored) ==
    [RpdInit EXCEPT !.sku = sku, !.cartId = stored, !.guestCartId = stored]

(* isInStock() of this page *)
rpdIsInStock(r) ==
    IF r.stockInfo # "null" THEN r.stockInfo = "inStock"
    ELSE r.product = "enabled"

(* the add-to-cart button is rendered and enabled *)
rpdButtonEnabled(r) ==
    ~r.loading /\ ~r.error /\ r.product # "null" /\ rpdIsInStock(r) /\ ~r.addingToCart

(* await magentoApi.addToGuestCart(cartId, {sku, qty}): cartId is the constant
   of the render the handler belongs to *)
rpdIssueAdd(r) == [r EXCEPT !.pc = "add", !.reqs = issue(@, "add", r.closure)]

(* the catch and finally blocks of handleAddToCart *)
rpdFailed(r) == [r EXCEPT !.pc = "idle", !.cartMessage = "Failed to add to cart",
                          !.addingToCart = FALSE]

(* fetchProductDetails: both requests of Promise.all have settled; a failed
   stock check gives null *)
RpdFetchProductDetails(product, stockInfo) ==
    /\ rpd.loading
    /\ rpd' = IF product = "null"
              THEN [rpd EXCEPT !.error = TRUE, !.loading = FALSE]
              ELSE [rpd EXCEPT !.product = product, !.stockInfo = stockInfo, !.loading = FALSE]
    /\ UNCHANGED <<localStorage, nextCartId, rest, lookup, fmv, svc, page, now, cartRev, pd, loads,
                 calls, listing, prov, chk>>

(* handleAddToCart, from a click on the enabled button, up to its first await *)
RpdHandleAddToCart ==
    /\ rpdButtonEnabled(rpd)
    /\ rpd.pc = "idle"
    /\ LET r == [rpd EXCEPT !.addingToCart = TRUE, !.cartMessage = "",
                            !.closure = rpd.cartId, !.reqs = <<>>]
       IN  rpd' = IF r.closure = Null
                  THEN [r EXCEPT !.pc = "create", !.reqs = issue(@, "restCreate", Null)]
                  ELSE rpdIssueAdd(r)
    /\ UNCHANGED <<localStorage, nextCartId, rest, lookup, fmv, svc, page, now, cartRev, pd, loads,
                 calls, listing, prov, chk>>

(* createGuestCart (magentoApi.js:1064) settled: on success it has stored
   guest_cart_id; the page calls setCartId and stores guestCartId, then
   issues the add *)
RpdCreateResponse(ok) ==
    /\ rpd.pc = "create"
    /\ IF ok
       THEN /\ nextCartId <= MaxCartId
            /\ nextCartId' = nextCartId + 1
            /\ localStorage' = setGuestCartId(localStorage, nextCartId)
            /\ rpd' = rpdIssueAdd([rpd EXCEPT !.reqs = setLast(@, "ok"),
                                              !.cartId = nextCartId,
                                              !.guestCartId = nextCartId])
       ELSE /\ rpd' = rpdFailed([rpd EXCEPT !.reqs = setLast(@, "httpError")])
            /\ UNCHANGED <<localStorage, nextCartId>>
    /\ UNCHANGED <<rest, lookup, fmv, svc, page, now, cartRev, pd, loads,
                 calls, listing, prov, chk>>

(* the add-item call settled *)
RpdAddResponse(ok) ==
    /\ rpd.pc = "add"
    /\ rpd' = IF ok
              THEN [rpd EXCEPT !.pc = "idle", !.reqs = setLast(@, "ok"),
                               !.cartMessage = "Product added to cart successfully!",
                               !.timer = TRUE, !.addingToCart = FALSE]
              ELSE rpdFailed([rpd EXCEPT !.reqs = setLast(@, "httpError")])
    /\ UNCHANGED <<localStorage, nextCartId, rest, lookup, fmv, svc, page, now, cartRev, pd, loads,
                 calls, listing, prov, chk>>

(* the timeout set after a success fires: setCartMessage('') *)
RpdMessageTimeout ==
    /\ rpd.timer
    /\ rpd' = [rpd EXCEPT !.cartMessage = "", !.timer = FALSE]
    /\ UNCHANGED <<localStorage, nextCartId, rest, lookup, fmv, svc, page, now, cartRev, pd, loads,
                 calls, listing, prov, chk>>

(* the page is left and the page of a product is opened: the component
   mounts anew *)
RpdRemount(sku) ==
    /\ rpd.pc = "idle"
    /\ ~rpd.loading
    /\ rpd' = rpdMount(sku, rpd.guestCartId)
    /\ UNCHANGED <<localStorage, nextCartId, rest, lookup, fmv, svc, page, now, cartRev, pd, loads,
                 calls, listing, prov, chk>>

(* ======================================================================= *)
(* fetchProducts                                                           *)
(* ======================================================================= *)

(* the three fetchProducts of the repository: GraphQL with an empty filter
   (src/services/magentoApi.js:24), GraphQL filtering on visibility
   (unnamed/part_017:21), REST with search criteria (unnamed/part_016:21) *)
ListingVersions == {"graphql", "graphqlVisible", "rest"}

(* const { pageSize = 20, currentPage = 1 } = params: a missing parameter
   (NoValue) takes its default *)
DefaultPageSize == 20
DefaultCurrentPage == 1
withDefault(value, default) == IF value = NoValue THEN default ELSE value

(* the parameters a caller passes: each is left out or given *)
ListingParams == [pageSize : {NoValue} \cup 1..MaxPage, currentPage : {NoValue} \cup 1..MaxPage]

(* the filters each version writes into its request, as <<field, value>> *)
listingFilters(version) ==
    CASE version = "graphql" -> {}
      [] version = "graphqlVisible" -> {<<"visibility", "4">>}
      [] version = "rest" -> {<<"visibility", "4">>, <<"status", "1">>}

(* the request fetchProducts(params) sends *)
listingRequest(version, params) ==
    [transport |-> IF version = "rest" THEN "rest" ELSE "graphql",
     pageSize |-> withDefault(params.pageSize, DefaultPageSize),
     currentPage |-> withDefault(params.currentPage, DefaultCurrentPage),
     filters |-> listingFilters(version)]

ListingIdle == [pc |-> "idle", version |-> "rest",
                params |-> [pageSize |-> NoValue, currentPage |-> NoValue],
                request |-> listingRequest("rest", [pageSize |-> NoValue, currentPage |-> NoValue]),
                error |-> <<>>]

(* a call of fetchProducts(params), up to its fetch *)
FetchProducts(version, params) ==
    /\ listing.pc \in {"idle", "resolved", "rejected"}
    /\ listing' = [pc |-> "pending", version |-> version, params |-> params,
                   request |-> listingRequest(version, params), error |-> <<>>]
    /\ UNCHANGED <<localStorage, nextCartId, rest, lookup, fmv, svc, page, now, cartRev, pd, loads,
                 calls, rpd, prov, chk>>

(* the answer to the product-list request: the items are returned, or the
   error is rethrown as 'Failed to fetch products: ...' *)
ListingResponse ==
    /\ listing.pc = "pending"
    /\ \E outcome \in {"items", "httpError", "gqlErrors", "networkError"} :
         /\ outcome = "gqlErrors" => listing.request.transport = "graphql"
         /\ listing' = IF outcome = "items"
                       THEN [listing EXCEPT !.pc = "resolved"]
                       ELSE [listing EXCEPT !.pc = "rejected",
                                            !.error = wrap("Failed to fetch products: ",
                                                           <<outcome>>)]
    /\ UNCHANGED <<localStorage, nextCartId, rest, lookup, fmv, svc, page, now, cartRev, pd, loads,
                 calls, rpd, prov, chk>>

(* ======================================================================= *)
(* contexts/CartContext.js: CartProvider                                   *)
(* ======================================================================= *)

(* the operations of the provider that can be in flight together: the
   initializeCart of the mount effect and a call from a consumer *)
ProvSlots == 1..2

ProvOpIdle == [op |-> "none", pc |-> "idle", sku |-> "none", existing |-> Null,
               reqs |-> <<>>, error |-> <<>>]

(* useState(null), useState([]), useState(false), useState(null); cartItems
   is 0 for [] and 1 for a non-empty list; error <<>> is null *)
ProvInit == [cartId |-> Null, cartItems |-> 0, isLoading |-> FALSE, error |-> <<>>,
             mounted |-> FALSE, ops |-> [i \in ProvSlots |-> ProvOpIdle]]

provInFlight(o) == o.pc \notin {"idle", "resolved", "rejected"}

(* setIsLoading(true); setError(null) at the start of an operation *)
provStart(pr, i, op, sku) ==
    [pr EXCEPT !.isLoading = TRUE, !.error = <<>>,
               !.ops[i] = [ProvOpIdle EXCEPT !.op = op, !.sku = sku]]

(* the request an operation awaits *)
provIssue(pr, i, pc, api, cartId) ==
    [pr EXCEPT !.ops[i].pc = pc, !.ops[i].reqs = issue(@, api, cartId)]

(* finally { setIsLoading(false) } with the way the operation settles *)
provFinally(pr, i, pc) == [pr EXCEPT !.isLoading = FALSE, !.ops[i].pc = pc]

(* the catch blocks on the way out of an operation: setError(error.message) *)
provCaught(pr, i, msg) == [pr EXCEPT !.error = msg, !.ops[i].error = msg]

(* magentoApi.addToGuestCart(sku, quantity): getGuestCartId returns the
   stored id or asks for a cart, then the item is added *)
provAddToGuestCart(pr, i, storage) ==
    IF storage.guest_cart_id # Null
    THEN provIssue(pr, i, "add", "add", storage.guest_cart_id)
    ELSE provIssue(pr, i, "addCreate", "create", Null)

(* initializeCart, run by the mount effect, up to its first await *)
ProvInitializeCart(i) ==
    /\ ~prov.mounted
    /\ ~provInFlight(prov.ops[i])
    /\ LET existingCartId == localStorage.guest_cart_id
           pr == [provStart(prov, i, "initializeCart", "none") EXCEPT
                     !.mounted = TRUE, !.ops[i].existing = existingCartId]
       IN  prov' = IF existingCartId # Null
                   THEN provIssue([pr EXCEPT !.cartId = existingCartId],
                                  i, "initItems", "items", existingCartId)
                   ELSE provIssue(pr, i, "initCreate", "create", Null)
    /\ UNCHANGED <<localStorage, nextCartId, rest, lookup, fmv, svc, page, now, cartRev, pd, loads,
                 calls, rpd, listing, chk>>

(* createEmptyCart of the provider, up to its await *)
ProvCreateEmptyCart(i) ==
    /\ prov.mounted
    /\ ~provInFlight(prov.ops[i])
    /\ prov' = provIssue(provStart(prov, i, "createEmptyCart", "none"), i, "create", "create", Null)
    /\ UNCHANGED <<localStorage, nextCartId, rest, lookup, fmv, svc, page, now, cartRev, pd, loads,
                 calls, rpd, listing, chk>>

(* addToCart(sku), up to its first await: createNewCart when the provider
   has no cartId, else the add of the service *)
ProvAddToCart(i, sku) ==
    /\ prov.mounted
    /\ ~provInFlight(prov.ops[i])
    /\ LET pr == provStart(prov, i, "addToCart", sku)
       IN  prov' = IF prov.cartId = Null
                   THEN provIssue(pr, i, "addCreateNew", "create", Null)
                   ELSE provAddToGuestCart(pr, i, localStorage)
    /\ UNCHANGED <<localStorage, nextCartId, rest, lookup, fmv, svc, page, now, cartRev, pd, loads,
                 calls, rpd, listing, chk>>

(* the answer to a cart creation: createEmptyCart of the service stores the
   id; createNewCart or createEmptyCart of the provider take it over, or set
   the error and rethrow *)
ProvCreateResponse(i) ==
    /\ prov.ops[i].pc \in {"initCreate", "create", "addCreateNew", "addCreate"}
    /\ \E resp \in GqlResponses :
         LET r == createEmptyCart(resp, nextCartId)
             pc == prov.ops[i].pc
             pr == [prov EXCEPT !.ops[i].reqs = setLast(@, resp)]
             taken == [pr EXCEPT !.cartId = r.cartId, !.cartItems = 0]
             newCart == [taken EXCEPT !.error = <<>>]
         IN  /\ resp.data => nextCartId <= MaxCartId
             /\ nextCartId' = IF resp.data THEN nextCartId + 1 ELSE nextCartId
             /\ IF r.error = <<>>
                THEN /\ localStorage' = setGuestCartId(localStorage, r.cartId)
                     /\ prov' = CASE pc = "initCreate" -> provFinally(newCart, i, "resolved")
                                  [] pc = "create" -> provFinally(taken, i, "resolved")
                                  [] pc = "addCreateNew" ->
                                       provAddToGuestCart(newCart, i, localStorage')
                                  [] pc = "addCreate" ->
                                       provIssue(pr, i, "add", "add", r.cartId)
                ELSE /\ localStorage' = localStorage
                     /\ prov' = provFinally(provCaught(pr, i, r.error), i,
                                            IF pc = "initCreate" THEN "resolved" ELSE "rejected")
    /\ UNCHANGED <<rest, lookup, fmv, svc, page, now, cartRev, pd, loads,
                 calls, rpd, listing, chk>>

(* the answer to the add of addToCart: on success the items are fetched *)
ProvAddResponse(i) ==
    /\ prov.ops[i].pc = "add"
    /\ \E resp \in GqlResponses :
         LET thrown == addEnvelope(resp)
             pr == [prov EXCEPT !.ops[i].reqs = setLast(@, resp)]
         IN  prov' = IF thrown = <<>>
                     THEN provIssue(pr, i, "addItems", "items", localStorage.guest_cart_id)
                     ELSE provFinally(provCaught(pr, i, thrown), i, "rejected")
    /\ UNCHANGED <<localStorage, nextCartId, rest, lookup, fmv, svc, page, now, cartRev, pd, loads,
                 calls, rpd, listing, chk>>

(* getGuestCartItems settled: the items of the response, or [] from its
   catch block for every failure; it never rejects *)
ProvItemsResponse(i) ==
    /\ prov.ops[i].pc \in {"initItems", "addItems"}
    /\ \E answer \in {"items", "noItems", "httpError", "networkError"} :
         LET items == IF answer = "items" THEN 1 ELSE 0
             pr == [prov EXCEPT !.ops[i].reqs = setLast(@, answer)]
         IN  prov' = provFinally([pr EXCEPT !.cartItems = items], i, "resolved")
    /\ UNCHANGED <<localStorage, nextCartId, rest, lookup, fmv, svc, page, now, cartRev, pd, loads,
                 calls, rpd, listing, chk>>

(* ======================================================================= *)
(* Checkout (unnamed/part_008)                                             *)
(* ======================================================================= *)

(* what is typed into the email field, as the characters of the string *)
Emails == {<<>>, <<"a", "@", "b">>, <<"a", "@", ".", "c">>, <<"a", " ", "@", "b", ".", "c">>,
           <<"a", "@", "b", ".", "c">>}

(* the fields of an address that validateAddress reads, and what is typed
   into one; region_id and country_code keep their defaults *)
AddressFieldOrder == <<"firstname", "lastname", "street", "city", "postcode", "telephone">>
AddressFields == {AddressFieldOrder[k] : k \in 1..Len(AddressFieldOrder)}
FieldValues == {"", "x"}

EmptyAddress == [firstname |-> "", lastname |-> "", street |-> <<"">>, city |-> "",
                 postcode |-> "", telephone |-> ""]

ChkInit == [cartData |-> Null, loading |-> TRUE, submitting |-> FALSE, error |-> <<>>,
            success |-> FALSE, sameAsShipping |-> TRUE, email |-> <<>>,
            shippingAddress |-> EmptyAddress, billingAddress |-> EmptyAddress,
            pc |-> "idle", reqs |-> <<>>, redirect |-> FALSE, gone |-> FALSE]

(* /^[^\s@]+@[^\s@]+\.[^\s@]+$/.test(email) *)
validateEmail(email) ==
    \E at \in 1..Len(email), dot \in 1..Len(email) :
        /\ email[at] = "@"
        /\ email[dot] = "."
        /\ at > 1
        /\ dot > at + 1
        /\ dot < Len(email)
        /\ \A k \in (1..Len(email)) \ {at} : email[k] \notin {" ", "@"}

(* validateAddress: every field read is truthy *)
validateAddress(address) ==
    /\ address.firstname # ""
    /\ address.lastname # ""
    /\ address.street[1] # ""
    /\ address.city # ""
    /\ address.postcode # ""
    /\ address.telephone # ""

(* handleShippingChange / handleBillingChange on an address *)
handleAddressChange(address, field, value) ==
    IF field = "street" THEN [address EXCEPT !.street = <<value>>]
    ELSE [address EXCEPT ![field] = value]

(* the billing fields are filled in from the first to the last and emptied
   from the last to the first: the change of field to value keeps the filled
   fields a prefix of the form (the shipping fields change in any order) *)
typedInFormOrder(address, field, value) ==
    LET changed == handleAddressChange(address, field, value)
        filled(k) == IF AddressFieldOrder[k] = "street" THEN changed.street[1] # ""
                     ELSE changed[AddressFieldOrder[k]] # ""
    IN  \A k \in 2..Len(AddressFieldOrder) : filled(k) => filled(k - 1)

(* the validation of handleSubmit that leaves the billing address unchecked *)
handleSubmitError_BillingUnchecked(c) ==
    IF ~validateEmail(c.email) THEN <<"Please enter a valid email address">>
    ELSE IF ~validateAddress(c.shippingAddress)
    THEN <<"Please fill in all shipping address fields">>
    ELSE <<>>

(* the validation of handleSubmit: the message of the first check that
   fails, <<>> when all pass *)
handleSubmitError(c) ==
    IF ~validateEmail(c.email) THEN <<"Please enter a valid email address">>
    ELSE IF ~validateAddress(c.shippingAddress)
    THEN <<"Please fill in all shipping address fields">>
    ELSE IF ~c.sameAsShipping /\ ~validateAddress(c.billingAddress)
    THEN <<"Please fill in all billing address fields">>
    ELSE <<>>

(* the three calls of handleSubmit, in the order of the code *)
CheckoutSteps == <<"setGuestEmailOnCart", "setShippingAddressOnCart", "setBillingAddressOnCart">>

(* the form is rendered: not loading, and not the error page *)
chkFormRendered(c) == ~c.gone /\ ~c.loading /\ ~(c.error # <<>> /\ c.cartData = Null)

(* the inputs and the submit button are enabled *)
chkEditable(c) == chkFormRendered(c) /\ ~c.submitting

(* state setters do nothing once the component is unmounted; the handler's
   own position and requests go on *)
chkSetState(c, new) ==
    IF c.gone
    THEN [c EXCEPT !.pc = new.pc, !.reqs = new.reqs, !.redirect = new.redirect]
    ELSE new

(* loadCartData: getCartData resolved, with items or without *)
ChkLoadCartData(hasItems) ==
    /\ chk.loading
    /\ chk' = IF hasItems
              THEN [chk EXCEPT !.cartData = 1, !.loading = FALSE]
              ELSE [chk EXCEPT !.error = <<"Your cart is empty. Please add items before checkout.">>,
                               !.redirect = TRUE, !.loading = FALSE]
    /\ UNCHANGED <<localStorage, nextCartId, rest, lookup, fmv, svc, page, now, cartRev, pd, loads,
                 calls, rpd, listing, prov>>

(* the email input changes *)
ChkSetEmail(email) ==
    /\ chkEditable(chk)
    /\ chk' = [chk EXCEPT !.email = email]
    /\ UNCHANGED <<localStorage, nextCartId, rest, lookup, fmv, svc, page, now, cartRev, pd, loads,
                 calls, rpd, listing, prov>>

ChkHandleShippingChange(field, value) ==
    /\ chkEditable(chk)
    /\ chk' = [chk EXCEPT !.shippingAddress = handleAddressChange(@, field, value)]
    /\ UNCHANGED <<localStorage, nextCartId, rest, lookup, fmv, svc, page, now, cartRev, pd, loads,
                 calls, rpd, listing, prov>>

(* the billing fields are rendered when the billing address is not the
   shipping address; they are typed in form order *)
ChkHandleBillingChange(field, value) ==
    /\ chkEditable(chk)
    /\ ~chk.sameAsShipping
    /\ typedInFormOrder(chk.billingAddress, field, value)
    /\ chk' = [chk EXCEPT !.billingAddress = handleAddressChange(@, field, value)]
    /\ UNCHANGED <<localStorage, nextCartId, rest, lookup, fmv, svc, page, now, cartRev, pd, loads,
                 calls, rpd, listing, prov>>

(* the checkbox 'same as shipping' *)
ChkSetSameAsShipping(checked) ==
    /\ chkEditable(chk)
    /\ chk' = [chk EXCEPT !.sameAsShipping = checked]
    /\ UNCHANGED <<localStorage, nextCartId, rest, lookup, fmv, svc, page, now, cartRev, pd, loads,
                 calls, rpd, listing, prov>>

(* handleSubmit up to its first await *)
ChkHandleSubmit ==
    /\ chkEditable(chk)
    /\ chk.pc = "idle"
    /\ LET invalid == handleSubmitError(chk)
           cartId == localStorage.guest_cart_id
           c == [chk EXCEPT !.reqs = <<>>]
       IN  chk' = IF invalid # <<>>
                  THEN [c EXCEPT !.error = invalid]
                  ELSE IF cartId = Null
                  THEN [c EXCEPT !.error = <<"Cart ID not found">>, !.submitting = FALSE]
                  ELSE [c EXCEPT !.submitting = TRUE, !.error = <<>>, !.pc = "step",
                                 !.reqs = issue(@, CheckoutSteps[1], cartId)]
    /\ UNCHANGED <<localStorage, nextCartId, rest, lookup, fmv, svc, page, now, cartRev, pd, loads,
                 calls, rpd, listing, prov>>

(* the call handleSubmit awaits settled: the next call is made with the same
   cartId, after the third success is set; a rejection reaches the catch
   block; finally setSubmitting(false) *)
ChkStepResponse(ok) ==
    /\ chk.pc = "step"
    /\ LET n == Len(chk.reqs)
           cartId == chk.reqs[n].cart
           c == [chk EXCEPT !.reqs = setLast(@, IF ok THEN "ok" ELSE "httpError")]
       IN  chk' = IF ~ok
                  THEN chkSetState(chk, [c EXCEPT !.pc = "idle", !.submitting = FALSE,
                                                  !.error = <<"Request failed: ", CheckoutSteps[n]>>])
                  ELSE IF n < Len(CheckoutSteps)
                  THEN chkSetState(chk, [c EXCEPT !.reqs = issue(@, CheckoutSteps[n + 1], cartId)])
                  ELSE chkSetState(chk, [c EXCEPT !.pc = "idle", !.submitting = FALSE,
                                                  !.success = TRUE, !.error = <<>>,
                                                  !.redirect = TRUE])
    /\ UNCHANGED <<localStorage, nextCartId, rest, lookup, fmv, svc, page, now, cartRev, pd, loads,
                 calls, rpd, listing, prov>>

(* a timeout of two seconds fires: history.push('/cart') leaves the page *)
ChkRedirect ==
    /\ chk.redirect
    /\ chk' = [chk EXCEPT !.redirect = FALSE, !.gone = TRUE]
    /\ UNCHANGED <<localStorage, nextCartId, rest, lookup, fmv, svc, page, now, cartRev, pd, loads,
                 calls, rpd, listing, prov>>

(* ======================================================================= *)
(* Specifications                                                          *)
(* ======================================================================= *)

InitCheckout ==
    /\ localStorage \in [guest_cart_id : {Null, 1}, cart_data : {NoItem},
                         cart_data_timestamp : {NoItem}]
    /\ nextCartId = 2
    /\ rest = RestIdle
    /\ lookup = LookupIdle
    /\ fmv = FmvIdle
    /\ svc = SvcIdle
    /\ page = PageInit
    /\ now = 0
    /\ cartRev = 1
    /\ pd = PdInit
    /\ loads = <<>>
    /\ calls = CallsIdle
    /\ rpd = RpdInit
    /\ listing = ListingIdle
    /\ prov = ProvInit
    /\ chk = ChkInit

NextCheckout ==
    \/ \E hasItems \in BOOLEAN : ChkLoadCartData(hasItems)
    \/ \E email \in Emails : ChkSetEmail(email)
    \/ \E field \in AddressFields, value \in FieldValues : ChkHandleShippingChange(field, value)
    \/ \E field \in AddressFields, value \in FieldValues : ChkHandleBillingChange(field, value)
    \/ \E checked \in BOOLEAN : ChkSetSameAsShipping(checked)
    \/ ChkHandleSubmit
    \/ \E ok \in BOOLEAN : ChkStepResponse(ok)
    \/ ChkRedirect

SpecCheckout == InitCheckout /\ [][NextCheckout]_vars

InitProvider ==
    /\ localStorage \in [guest_cart_id : {Null, 1}, cart_data : {NoItem},
                         cart_data_timestamp : {NoItem}]
    /\ nextCartId = 2
    /\ rest = RestIdle
    /\ lookup = LookupIdle
    /\ fmv = FmvIdle
    /\ svc = SvcIdle
    /\ page = PageInit
    /\ now = 0
    /\ cartRev = 1
    /\ pd = PdInit
    /\ loads = <<>>
    /\ calls = CallsIdle
    /\ rpd = RpdInit
    /\ listing = ListingIdle
    /\ prov = ProvInit
    /\ chk = ChkInit

NextProvider ==
    \/ \E i \in ProvSlots : ProvInitializeCart(i)
    \/ \E i \in ProvSlots : ProvCreateEmptyCart(i)
    \/ \E i \in ProvSlots, sku \in Skus : ProvAddToCart(i, sku)
    \/ \E i \in ProvSlots : ProvCreateResponse(i)
    \/ \E i \in ProvSlots : ProvAddResponse(i)
    \/ \E i \in ProvSlots : ProvItemsResponse(i)

SpecProvider == InitProvider /\ [][NextProvider]_vars

InitPage ==
    /\ localStorage \in [guest_cart_id : {Null, 1}, cart_data : {NoItem},
                         cart_data_timestamp : {NoItem}]
    /\ nextCartId = 2
    /\ rest = RestIdle
    /\ lookup = LookupIdle
    /\ fmv = FmvIdle
    /\ svc = SvcIdle
    /\ page = PageInit
    /\ now = 0
    /\ cartRev = 1
    /\ pd = PdInit
    /\ loads = <<>>
    /\ calls = CallsIdle
    /\ rpd = RpdInit
    /\ listing = ListingIdle
    /\ prov = ProvInit
    /\ chk = ChkInit

NextPage ==
    \/ \E p \in 1..Len(Catalog) : FetchProductDetailsOk(p)
    \/ FetchProductDetailsFail
    \/ \E o \in OptionIds, v \in ValueIndexes \cup {0} : HandleOptionChange(o, v)
    \/ \E v \in 1..MaxQty : HandleQuantityChange(v)
    \/ HandleAddToCart
    \/ CartMessageTimeout
    \/ SvcCreateResponse
    \/ SvcAddResponse

SpecPage == InitPage /\ [][NextPage]_vars

InitOverlap ==
    /\ localStorage \in [guest_cart_id : {Null, 1}, cart_data : {NoItem},
                         cart_data_timestamp : {NoItem}]
    /\ nextCartId = 2
    /\ rest = RestIdle
    /\ lookup = LookupIdle
    /\ fmv = FmvIdle
    /\ svc = SvcIdle
    /\ page = PageInit
    /\ now = 0
    /\ cartRev = 1
    /\ pd = PdInit
    /\ loads = <<>>
    /\ calls = CallsIdle
    /\ rpd = RpdInit
    /\ listing = ListingIdle
    /\ prov = ProvInit
    /\ chk = ChkInit

NextOverlap ==
    \/ \E i \in Callers, op \in {"getGuestCartId", "addToGuestCart"}, sku \in Skus :
          OverlapCall(i, op, sku)
    \/ \E i \in Callers : OverlapCreateResponse(i)
    \/ \E i \in Callers : OverlapAddResponse(i)

SpecOverlap == InitOverlap /\ [][NextOverlap]_vars

InitRestPage ==
    /\ localStorage = [guest_cart_id |-> Null, cart_data |-> NoItem, cart_data_timestamp |-> NoItem]
    /\ nextCartId = 2
    /\ rest = RestIdle
    /\ lookup = LookupIdle
    /\ fmv = FmvIdle
    /\ svc = SvcIdle
    /\ page = PageInit
    /\ now = 0
    /\ cartRev = 1
    /\ pd = PdInit
    /\ loads = <<>>
    /\ calls = CallsIdle
    /\ rpd \in {rpdMount("SKU-A", stored) : stored \in {Null, 1}}
    /\ listing = ListingIdle
    /\ prov = ProvInit
    /\ chk = ChkInit

NextRestPage ==
    \/ \E product \in {"null", "enabled", "disabled"}, stockInfo \in {"null", "inStock", "outOfStock"} :
          RpdFetchProductDetails(product, stockInfo)
    \/ RpdHandleAddToCart
    \/ \E ok \in BOOLEAN : RpdCreateResponse(ok)
    \/ \E ok \in BOOLEAN : RpdAddResponse(ok)
    \/ RpdMessageTimeout
    \/ \E sku \in Skus : RpdRemount(sku)

SpecRestPage == InitRestPage /\ [][NextRestPage]_vars

InitList ==
    /\ localStorage = [guest_cart_id |-> Null, cart_data |-> NoItem, cart_data_timestamp |-> NoItem]
    /\ nextCartId = 1
    /\ rest = RestIdle
    /\ lookup = LookupIdle
    /\ fmv = FmvIdle
    /\ svc = SvcIdle
    /\ page = PageInit
    /\ now = 0
    /\ cartRev = 1
    /\ pd = PdInit
    /\ loads = <<>>
    /\ calls = CallsIdle
    /\ rpd = RpdInit
    /\ listing = ListingIdle
    /\ prov = ProvInit
    /\ chk = ChkInit

NextList ==
    \/ \E version \in ListingVersions, params \in ListingParams : FetchProducts(version, params)
    \/ ListingResponse

SpecList == InitList /\ [][NextList]_vars

InitChild ==
    /\ localStorage \in [guest_cart_id : {Null, 1}, cart_data : {NoItem},
                         cart_data_timestamp : {NoItem}]
    /\ nextCartId = 2
    /\ rest = RestIdle
    /\ lookup = LookupIdle
    /\ fmv = FmvIdle
    /\ svc = SvcIdle
    /\ page = PageInit
    /\ now = 0
    /\ cartRev = 1
    /\ pd = PdInit
    /\ loads = <<>>
    /\ calls = CallsIdle
    /\ rpd = RpdInit
    /\ listing = ListingIdle
    /\ prov = ProvInit
    /\ chk = ChkInit

NextChild ==
    \/ \E p \in 1..Len(Catalog) : ChildProductResponse(p)
    \/ ChildProductFail
    \/ \E ok \in BOOLEAN : ChildVariantsResponse(ok)
    \/ \E o \in OptionIds, v \in ValueIndexes \cup {NaN} : ChildHandleOptionChange(o, v)
    \/ ChildHandleAddToCart
    \/ CartMessageTimeout
    \/ SvcCreateResponse
    \/ SvcAddResponse

SpecChild == InitChild /\ [][NextChild]_vars

InitCache ==
    /\ localStorage \in [guest_cart_id : {Null, 1}, cart_data : {NoItem},
                         cart_data_timestamp : {NoItem}]
    /\ nextCartId = 2
    /\ rest = RestIdle
    /\ lookup = LookupIdle
    /\ fmv = FmvIdle
    /\ svc = SvcIdle
    /\ page = PageInit
    /\ now = 0
    /\ cartRev = 1
    /\ pd = PdInit
    /\ loads = <<>>
    /\ calls = CallsIdle
    /\ rpd = RpdInit
    /\ listing = ListingIdle
    /\ prov = ProvInit
    /\ chk = ChkInit

NextCache ==
    \/ Tick
    \/ GetCartData
    \/ SvcFetchCartResponse
    \/ CallCreateEmptyCart
    \/ CallGetGuestCartId
    \/ SvcCreateResponse
    \/ CallAddToGuestCart("SKU-A", 1)   \* the cart cache never reads sku or quantity
    \/ SvcAddResponse
    \/ ClearCartCache
    \/ ClearCart

SpecCache == InitCache /\ [][NextCache]_vars

InitLoad ==
    /\ localStorage = [guest_cart_id |-> Null, cart_data |-> NoItem, cart_data_timestamp |-> NoItem]
    /\ nextCartId = 1
    /\ rest = RestIdle
    /\ lookup = LookupIdle
    /\ fmv = FmvIdle
    /\ svc = SvcIdle
    /\ page = PageInit
    /\ now = 0
    /\ cartRev = 1
    /\ pd = PdInit
    /\ loads = <<issueRequests("SKU-A")>>
    /\ calls = CallsIdle
    /\ rpd = RpdInit
    /\ listing = ListingIdle
    /\ prov = ProvInit
    /\ chk = ChkInit

NextLoad ==
    \/ \E i \in 1..MaxLoads, ok \in BOOLEAN : LoadProductResponse(i, ok)
    \/ \E i \in 1..MaxLoads, ok \in BOOLEAN : LoadStockResponse(i, ok)
    \/ \E sku \in Skus : ChangeSku(sku)
    \/ Unmount

SpecLoad == InitLoad /\ [][NextLoad]_vars

InitVariant ==
    /\ localStorage = [guest_cart_id |-> Null, cart_data |-> NoItem, cart_data_timestamp |-> NoItem]
    /\ nextCartId = 1
    /\ rest = RestIdle
    /\ lookup = LookupIdle
    /\ svc = SvcIdle
    /\ page = PageInit
    /\ now = 0
    /\ cartRev = 1
    /\ pd = PdInit
    /\ loads = <<>>
    /\ calls = CallsIdle
    /\ rpd = RpdInit
    /\ listing = ListingIdle
    /\ prov = ProvInit
    /\ chk = ChkInit
    /\ fmv \in [prod : [configurable_options : OptionLists, variants : VariantLists],
                selections : Selections, applied : {FALSE}, result : {0}]

NextVariant == ApplyFindMatchingVariant

SpecVariant == InitVariant /\ [][NextVariant]_vars

InitStorage == [guest_cart_id : {Null, 1}, cart_data : {NoItem}, cart_data_timestamp : {NoItem}]

Init ==
    /\ localStorage \in InitStorage
    /\ nextCartId = 2
    /\ rest = RestIdle
    /\ lookup = LookupIdle
    /\ fmv = FmvIdle
    /\ svc = SvcIdle
    /\ page = PageInit
    /\ now = 0
    /\ cartRev = 1
    /\ pd = PdInit
    /\ loads = <<>>
    /\ calls = CallsIdle
    /\ rpd = RpdInit
    /\ listing = ListingIdle
    /\ prov = ProvInit
    /\ chk = ChkInit

Next ==
    \/ \E sku \in Skus, qty \in 1..MaxQty : RestAddToGuestCart(sku, qty)
    \/ \E useGraphQL \in BOOLEAN : RestGetGuestCartId(useGraphQL)
    \/ RestGqlCreateOk
    \/ RestGqlCreateFail
    \/ RestCreateOk
    \/ RestCreateFail
    \/ RestAddOk
    \/ RestAddFail
    \/ \E sku \in Skus : GetProductBySku(sku)
    \/ LookupGraphqlResponse
    \/ LookupRestResponse

Spec == Init /\ [][Next]_vars

(* ======================================================================= *)
(* Properties                                                              *)
(* ======================================================================= *)

restAdds == SelectSeq(rest.reqs, LAMBDA q : q.api = "add")
restCreates == SelectSeq(rest.reqs, LAMBDA q : q.api # "add")
restCreated == SelectSeq(rest.reqs, LAMBDA q : q.api # "add" /\ q.answer = "ok")

(* the case of C1: the call found a cached cart id, the platform answered
   'No such entity' to the first add *)
restInvalidCachedCart ==
    /\ rest.cachedAtStart # Null
    /\ Len(restAdds) >= 1
    /\ restAdds[1].answer = "noSuchEntity"

(* C1: in the REST addToGuestCart, when the add for the cached cart id fails
   with 'No such entity', guest_cart_id is removed from local storage (it is
   absent while the new cart is being created) and the add is repeated
   against a newly created cart; if the platform accepts that second add,
   the call resolves after exactly one cart was created and exactly two
   add-item requests, and local storage holds the new cart id. *)
C1_InvalidCartRecreatedOnce ==
    /\ (restInvalidCachedCart /\ Len(restAdds) = 1)
         => /\ rest.removed = 1
            /\ localStorage.guest_cart_id = Null
            /\ rest.pc \in {"gqlCreate", "restCreate", "rejected"}
    /\ (restInvalidCachedCart /\ Len(restAdds) >= 2)
         => /\ restAdds[1].cart = rest.cachedAtStart
            /\ restAdds[2].cart # rest.cachedAtStart
            /\ Len(restCreated) >= 1
    /\ (restInvalidCachedCart /\ Len(restAdds) >= 2 /\ restAdds[2].answer = "ok")
         => /\ rest.pc = "resolved"
            /\ Len(restCreated) = 1
            /\ Len(restAdds) = 2
            /\ rest.removed = 1
            /\ localStorage.guest_cart_id = restAdds[2].cart

C1_Witness ==
    /\ restInvalidCachedCart
    /\ Len(restAdds) = 2
    /\ restAdds[2].answer = "ok"
    /\ rest.pc = "resolved"
    /\ localStorage.guest_cart_id = 2

(* C2: within one addToGuestCart call at most one cart re-creation (one
   removal of the cached id) and at most two add-item requests are issued,
   whatever the platform answers. *)
C2_SingleRetry ==
    /\ Len(restAdds) <= 2
    /\ rest.removed <= 1

(* a request of the log that failed *)
failed(q) == q.answer \notin {"pending", "ok", "product"}

(* C3 as stated: apart from the invalid-cart retry of add-to-cart, a failed
   request is the last request of its operation, which ends with an error. *)
C3_FailedRequestIsTerminal ==
    /\ \A i \in 1..Len(rest.reqs) :
         (failed(rest.reqs[i]) /\ rest.reqs[i].answer # "noSuchEntity")
           => (i = Len(rest.reqs) /\ rest.pc = "rejected")
    /\ \A i \in 1..Len(lookup.reqs) :
         failed(lookup.reqs[i]) => (i = Len(lookup.reqs) /\ lookup.pc = "rejected")

(* C3 amended: a failed request is terminal except for the invalid-cart retry
   and the GraphQL-to-REST fallbacks: a failed GraphQL createEmptyCart in
   getGuestCartId is followed by exactly the REST createGuestCart request,
   a failed or empty GraphQL product query in getProductBySku by exactly the
   REST product request; a failed REST creation, a failed add without
   'No such entity' and a failed REST product request end the operation
   with an error and no further request. *)
C3_FailedRequestTerminalAfterFallback ==
    /\ \A i \in 1..Len(rest.reqs) :
         LET q == rest.reqs[i] IN
         (failed(q) /\ q.answer # "noSuchEntity")
           => IF q.api = "gqlCreate"
              THEN /\ i < Len(rest.reqs)
                   /\ rest.reqs[i + 1].api = "restCreate"
              ELSE /\ i = Len(rest.reqs)
                   /\ rest.pc = "rejected"
                   /\ rest.error # <<>>
    /\ \A i \in 1..Len(lookup.reqs) :
         LET q == lookup.reqs[i] IN
         failed(q)
           => IF q.api = "gql"
              THEN /\ i = 1
                   /\ Len(lookup.reqs) = 2
                   /\ lookup.reqs[2].api = "rest"
              ELSE /\ i = Len(lookup.reqs)
                   /\ lookup.pc = "rejected"
                   /\ lookup.error # <<>>

(* both terminal failures have happened: a REST product request failed after
   the fallback, and a REST cart creation failed after the fallback *)
C3_Witness ==
    /\ lookup.pc = "rejected"
    /\ Len(lookup.reqs) = 2
    /\ lookup.reqs[1].answer = "noItems"
    /\ rest.pc = "rejected"
    /\ Len(rest.reqs) = 2
    /\ rest.reqs[1].api = "gqlCreate"
    /\ rest.reqs[2].api = "restCreate"

(* the options of the drawn product that nothing is selected for *)
fmvUnselected ==
    {i \in 1..Len(fmv.prod.configurable_options) :
        fmv.selections[fmv.prod.configurable_options[i].id] = NoValue}

(* the variant at position v has, for every configurable option, an attribute
   with the option's attribute_code and the value selected for the option *)
fmvAgrees(v) ==
    \A i \in 1..Len(fmv.prod.configurable_options) :
        LET opt == fmv.prod.configurable_options[i] IN
        \E a \in 1..Len(fmv.prod.variants[v].attributes) :
            /\ fmv.prod.variants[v].attributes[a].code = opt.attribute_code
            /\ fmv.prod.variants[v].attributes[a].value_index = fmv.selections[opt.id]

(* C6: findMatchingVariant returns a variant only when every configurable
   option has a selected value; the variant returned has, for every option,
   an attribute with the option's attribute_code and the selected
   value_index; no variant is returned when the product has no options or no
   variants; of several matching variants the first in list order is returned. *)
C6_VariantMatchesEverySelection ==
    fmv.applied =>
        /\ (Len(fmv.prod.configurable_options) = 0 \/ Len(fmv.prod.variants) = 0)
             => fmv.result = 0
        /\ fmv.result # 0 =>
             /\ fmvUnselected = {}
             /\ fmvAgrees(fmv.result)
             /\ \A j \in 1..(fmv.result - 1) : ~fmvAgrees(j)

(* the add request of the page's call has been answered with resp *)
pageAddAnswered(resp) ==
    /\ svc.caller = "page"
    /\ svc.pc \in {"resolved", "rejected"}
    /\ Len(svc.reqs) > 0
    /\ svc.reqs[Len(svc.reqs)].api = "add"
    /\ svc.reqs[Len(svc.reqs)].answer = resp

(* C4: an add-to-cart action never reports success when the platform's
   response to the add has an HTTP error status or carries a non-empty
   GraphQL errors array: the service call rejects and the page does not show
   the 'has been added to your cart' message. *)
C4_NoSuccessOnErrorResponse ==
    \A resp \in GqlResponses :
        (pageAddAnswered(resp) /\ resp.kind = "response" /\ (~resp.ok \/ resp.errors # <<>>))
          => (svc.pc = "rejected" /\ page.cartMessage # "success")

(* the page shows an in-stock configurable product, no add is in flight and
   every configurable option has a selected value *)
allOptionsSelected ==
    /\ productRendered(page)
    /\ isInStock(page)
    /\ ~page.addingToCart
    /\ Len(pageProduct(page).configurable_options) > 0
    /\ \A i \in 1..Len(pageProduct(page).configurable_options) :
          page.selectedOptions[pageProduct(page).configurable_options[i].id] # NoValue

(* some variant of the product has, for every option, the selected value
   under the option's attribute code *)
someVariantAgrees ==
    \E v \in 1..Len(pageProduct(page).variants) :
       \A i \in 1..Len(pageProduct(page).configurable_options) :
          LET opt == pageProduct(page).configurable_options[i] IN
          \E a \in 1..Len(pageProduct(page).variants[v].attributes) :
             /\ pageProduct(page).variants[v].attributes[a].code = opt.attribute_code
             /\ pageProduct(page).variants[v].attributes[a].value_index
                  = page.selectedOptions[opt.id]

(* C5 as stated: for an in-stock configurable product with no add in flight,
   once every configurable option has a selected value the add-to-cart
   button is enabled. *)
C5_AllSelectedEnablesButton ==
    allOptionsSelected => addToCartEnabled(page)

(* C5 amended: for an in-stock configurable product with no add in flight,
   once every configurable option has a selected value and some variant of
   the product has exactly those values for the options' attribute codes,
   the add-to-cart button is enabled. *)
C5_MatchingSelectionEnablesButton ==
    (allOptionsSelected /\ someVariantAgrees) => addToCartEnabled(page)

C5_Witness ==
    /\ allOptionsSelected
    /\ someVariantAgrees
    /\ page.selectedOptions = [i \in OptionIds |-> IF i = 1 THEN 1 ELSE 2]
    /\ page.selectedVariant = 2
    /\ addToCartEnabled(page)

(* a settled direct call of getCartData *)
getCartDataReturned == svc.op = "getCartData" /\ svc.pc = "resolved"

(* at the call, cart_data was stored with a timestamp less than 300000 ms old *)
snapshotWasFresh ==
    /\ svc.atCall.cart_data # NoItem
    /\ svc.atCall.cart_data_timestamp # NoItem
    /\ svc.atCall.now - parseInt(svc.atCall.cart_data_timestamp) < 300000

(* the call returned the snapshot stored at the call, without a request *)
servedFromCache ==
    /\ Len(svc.reqs) = 0
    /\ svc.atCall.cart_data # NoItem
    /\ svc.ret = JSONparse(svc.atCall.cart_data)

(* C7: getCartData returns the cached snapshot without any network request
   if and only if cart_data is stored and cart_data_timestamp is stored and
   less than 5 minutes (300000 ms) old; otherwise, when a cart id is stored,
   it fetches that cart and, when the fetch succeeds, cart_data holds the
   fetched cart and cart_data_timestamp the time of the write, and the
   fetched cart is returned. *)
C7_CacheServedIffFresh ==
    getCartDataReturned =>
        /\ servedFromCache <=> snapshotWasFresh
        /\ (~snapshotWasFresh /\ svc.atCall.guest_cart_id # Null) =>
             /\ Len(svc.reqs) = 1
             /\ svc.reqs[1].api = "fetchCart"
             /\ svc.reqs[1].cart = svc.atCall.guest_cart_id
             /\ LET resp == svc.reqs[1].answer IN
                (resp.kind = "response" /\ resp.ok /\ resp.json /\ resp.errors = <<>>) =>
                    /\ svc.ret = (IF resp.data THEN cartRev ELSE NullCart)
                    /\ localStorage.cart_data = JSONstringify(svc.ret)
                    /\ localStorage.cart_data_timestamp = toString(svc.doneAt)

(* a snapshot exactly 300000 ms old was not served but fetched again *)
C7_Witness ==
    /\ getCartDataReturned
    /\ svc.atCall.cart_data # NoItem
    /\ svc.atCall.cart_data_timestamp # NoItem
    /\ svc.atCall.now - parseInt(svc.atCall.cart_data_timestamp) = 300000
    /\ Len(svc.reqs) = 1
    /\ accepted(svc.reqs[1].answer)
    /\ localStorage.cart_data_timestamp = toString(svc.doneAt)

(* a settled direct call of createEmptyCart *)
createEmptyCartSettled == svc.op = "createEmptyCart" /\ svc.pc \in {"resolved", "rejected"}

(* the step in which createEmptyCart handles the answer to its request *)
createEmptyCartAnswered == svc.pc = "create" /\ svc'.pc # "create"

(* C10: createEmptyCart writes guest_cart_id if and only if the platform
   answered with HTTP OK, no GraphQL errors and a non-empty cart id, and the
   stored value is the id it returns; on every failure it rejects with
   'Failed to create empty cart: ...' and leaves local storage unchanged. *)
C10_CartIdStoredIffCreated ==
    [][createEmptyCartAnswered =>
        LET resp == svc'.reqs[Len(svc.reqs)].answer
            created == /\ resp.kind = "response" /\ resp.ok /\ resp.json
                       /\ resp.errors = <<>> /\ resp.data
            returned == IF svc.op \in {"createEmptyCart", "getGuestCartId"} THEN svc'.ret
                        ELSE svc'.reqs[Len(svc'.reqs)].cart
        IN  /\ created <=> localStorage'.guest_cart_id # localStorage.guest_cart_id
            /\ created <=> svc'.pc # "rejected"
            /\ created => /\ returned # Null
                          /\ localStorage'.guest_cart_id = returned
                          /\ svc.op = "createEmptyCart" => svc'.pc = "resolved"
            /\ ~created => /\ svc'.error[1] = "Failed to create empty cart: "
                           /\ localStorage' = localStorage]_vars

(* a direct creation that replaced a stored id with the id it returned *)
C10_Witness ==
    /\ createEmptyCartSettled
    /\ svc.atCall.guest_cart_id # Null
    /\ svc.pc = "resolved"
    /\ localStorage.guest_cart_id = svc.ret
    /\ svc.ret # svc.atCall.guest_cart_id

(* C8: in ProductDetails the product request and the stock request of a run
   are in flight together; product and stock are set in one step, by a run
   whose two requests have both settled; a failed stock request gives
   stock = null and the run still succeeds; a failed product request gives
   the error state and the run does not set product. *)
C8_LoadJoinsBothRequests ==
    /\ pd.productFrom = pd.stockFrom
    /\ pd.productFrom = 0 => (pd.product = NoProduct /\ pd.stock = NullStock)
    /\ \A i \in 1..Len(loads) :
         LET l == loads[i] IN
         /\ l.outcome = "pending" => (l.p = "pending" \/ l.s = "pending") /\ l.p # "fail"
         /\ l.outcome = "success" => (l.p = "ok" /\ l.s \in {"ok", "caught"})
         /\ pd.productFrom = i =>
              /\ l.outcome = "success"
              /\ pd.product = l.sku
              /\ pd.stock = (IF l.s = "ok" THEN l.sku ELSE NullStock)
         /\ (l.p = "ok" /\ l.s = "caught" /\ l.mounted) =>
              (l.outcome = "success" /\ pd.stockFrom = i /\ pd.stock = NullStock /\ ~pd.error)
         /\ l.p = "fail" =>
              /\ l.outcome \in {"error", "dropped"}
              /\ pd.productFrom # i
              /\ l.mounted => (l.outcome = "error" /\ pd.error /\ ~pd.loading)

(* a run succeeded although its stock request failed, and product is set *)
C8_Witness ==
    /\ Len(loads) = 2
    /\ loads[1].outcome = "error"
    /\ loads[2].outcome = "success"
    /\ loads[2].s = "caught"
    /\ pd.product = "SKU-B"
    /\ pd.stock = NullStock
    /\ ~pd.loading

(* C9: once a run of the load effect has been cleaned up, its completion
   changes none of product, stock, error and loading; after the run for the
   current SKU has succeeded, product and stock are those of the current SKU. *)
C9_CleanedUpLoadChangesNothing ==
    /\ [][\A i \in 1..Len(loads) :
             (~loads[i].mounted /\ loads'[i] # loads[i]) =>
                 /\ pd'.product = pd.product
                 /\ pd'.stock = pd.stock
                 /\ pd'.error = pd.error
                 /\ pd'.loading = pd.loading]_vars
    /\ []((Len(loads) > 0 /\ loads[Len(loads)].outcome = "success") =>
             (pd.product = pd.sku /\ pd.stock \in {NullStock, pd.sku}))

(* the run for an earlier SKU completed after its cleanup and was dropped,
   the run for the current SKU has set the state *)
C9_Witness ==
    /\ Len(loads) = 2
    /\ loads[1].outcome = "dropped"
    /\ loads[1].p = "ok"
    /\ loads[1].s = "ok"
    /\ loads[2].outcome = "success"
    /\ pd.product = pd.sku
    /\ pd.sku = "SKU-B"

(* a settled direct call of getGuestCartId *)
getGuestCartIdSettled == svc.op = "getGuestCartId" /\ svc.pc \in {"resolved", "rejected"}

(* C11: getGuestCartId returns the stored guest_cart_id without issuing any
   request whenever one is stored; when none is stored it issues exactly one
   cart creation, and when it resolves the id it returns equals the
   guest_cart_id now held in local storage. *)
C11_StoredCartIdReturnedOrCreated ==
    svc.op = "getGuestCartId" =>
        /\ svc.atCall.guest_cart_id # Null =>
              /\ svc.pc = "resolved"
              /\ svc.reqs = <<>>
              /\ svc.ret = svc.atCall.guest_cart_id
        /\ svc.atCall.guest_cart_id = Null =>
              /\ Len(svc.reqs) = 1
              /\ svc.reqs[1].api = "create"
        /\ svc.pc = "resolved" =>
              /\ svc.ret # Null
              /\ svc.ret = localStorage.guest_cart_id

(* a call that found no id has resolved with the id of the cart it created,
   which local storage holds *)
C11_Witness ==
    /\ getGuestCartIdSettled
    /\ svc.pc = "resolved"
    /\ svc.atCall.guest_cart_id = Null
    /\ Len(svc.reqs) = 1
    /\ accepted(svc.reqs[1].answer)
    /\ svc.ret = localStorage.guest_cart_id

(* the page's add of a configurable product has issued its request *)
childConfigurableAdd ==
    /\ svc.caller = "page"
    /\ page.product # 0
    /\ Len(pageProduct(page).configurable_options) > 0
    /\ pageProduct(page).typename = "ConfigurableProduct"
    /\ \E i \in 1..Len(svc.reqs) : svc.reqs[i].api = "add"

(* the variants of the page's product whose attributes are exactly the
   selected values of the options *)
childMatchingSkus ==
    {pageProduct(page).variants[v].product.sku : v \in
        {v \in 1..Len(pageProduct(page).variants) :
            \A i \in 1..Len(pageProduct(page).configurable_options) :
               LET opt == pageProduct(page).configurable_options[i] IN
               \E a \in 1..Len(pageProduct(page).variants[v].attributes) :
                  /\ pageProduct(page).variants[v].attributes[a].code = opt.attribute_code
                  /\ pageProduct(page).variants[v].attributes[a].value_index
                       = page.selectedOptions[opt.id]}}

(* C12: when a configurable product is added to the cart from the product
   detail page, the request carries the configurable product's SKU as parent
   SKU and, as the item SKU, the SKU of the variant whose attributes match
   the selected option values; the parent SKU is never sent as the child SKU. *)
C12_ChildSkuOfMatchingVariant ==
    childConfigurableAdd =>
        /\ svc.op = "addConfigurable"
        /\ svc.parentSku = pageProduct(page).sku
        /\ svc.sku # svc.parentSku
        /\ svc.sku \in childMatchingSkus

(* C13: the selectedOptions argument of addToGuestCart is ignored: the
   add-to-cart request of a configurable product is determined by child SKU,
   quantity and parent SKU alone and carries no configurable_options. *)
C13_SelectedOptionsIgnored ==
    (svc.op = "addConfigurable" /\ \E i \in 1..Len(svc.reqs) : svc.reqs[i].api = "add")
        => svc.configurable_options = <<>>

(* C14: every product-list request, through REST or through GraphQL, carries
   the filters visibility = 4 and status = 1 together with the requested
   page size and page number. *)
C14_ListRequestCarriesFilters ==
    listing.pc # "idle" =>
        /\ <<"visibility", "4">> \in listing.request.filters
        /\ <<"status", "1">> \in listing.request.filters
        /\ listing.params.pageSize # NoValue => listing.request.pageSize = listing.params.pageSize
        /\ listing.params.currentPage # NoValue
             => listing.request.currentPage = listing.params.currentPage

(* C15: in the REST product detail page, the add-item request always carries
   a non-null cart id: when no cart id is known at click time, a guest cart
   is created first and the item is added to that newly created cart within
   the same click. *)
C15_AddCarriesCartId ==
    \A i \in 1..Len(rpd.reqs) :
        rpd.reqs[i].api = "add" =>
            /\ rpd.reqs[i].cart # Null
            /\ i > 1 => rpd.reqs[i].cart = rpd.guestCartId

(* the cart id the call of caller i uses: the id getGuestCartId resolved
   with, or the cart of the add request; Null while it has none *)
overlapCartOf(i) ==
    IF calls[i].op = "getGuestCartId"
    THEN IF calls[i].pc = "resolved" THEN calls[i].ret ELSE Null
    ELSE IF \E k \in 1..Len(calls[i].reqs) : calls[i].reqs[k].api = "add"
         THEN calls[i].reqs[Len(calls[i].reqs)].cart
         ELSE Null

(* C16: for any interleaving of two overlapping add-to-cart (or
   getGuestCartId) calls that start with no guest_cart_id stored, both calls
   use the same cart id and that id is the one left in local storage: no
   item is added to a cart whose id is not the stored one afterwards. *)
C16_OverlappingCallsShareCart ==
    \A i \in Callers, j \in Callers :
        (/\ calls[i].op # "none" /\ calls[j].op # "none"
         /\ calls[i].atCall.guest_cart_id = Null
         /\ calls[j].atCall.guest_cart_id = Null
         /\ overlapCartOf(i) # Null
         /\ overlapCartOf(j) # Null)
        => /\ overlapCartOf(i) = overlapCartOf(j)
           /\ overlapCartOf(i) = localStorage.guest_cart_id

(* a direct call of the REST-era getGuestCartId that found no stored id *)
restGetCartIdWithoutStoredId ==
    rest.op = "getGuestCartId" /\ rest.cachedAtStart = Null

(* C17: getGuestCartId with useGraphQL = true and no stored id tries the
   GraphQL createEmptyCart first and, if that fails, calls the REST
   createGuestCart exactly once, rejecting only if both fail; with
   useGraphQL = false it calls only createGuestCart and rejects on its
   failure without trying GraphQL. *)
C17_GraphqlThenRestFallback ==
    restGetCartIdWithoutStoredId =>
        /\ Len(rest.reqs) >= 1
        /\ rest.useGraphQL =>
              /\ rest.reqs[1].api = "gqlCreate"
              /\ Len(rest.reqs) <= 2
              /\ failed(rest.reqs[1]) <=> Len(rest.reqs) = 2
              /\ Len(rest.reqs) = 2 => rest.reqs[2].api = "restCreate"
              /\ rest.pc = "rejected" <=> (Len(rest.reqs) = 2 /\ failed(rest.reqs[2]))
              /\ rest.pc = "resolved" <=> rest.reqs[Len(rest.reqs)].answer = "ok"
        /\ ~rest.useGraphQL =>
              /\ Len(rest.reqs) = 1
              /\ rest.reqs[1].api = "restCreate"
              /\ rest.pc = "rejected" <=> failed(rest.reqs[1])
              /\ rest.pc = "resolved" <=> rest.reqs[1].answer = "ok"
        /\ rest.pc = "rejected" => rest.error[1] = "Failed to create cart: "
        /\ rest.pc = "resolved" => (rest.ret # Null /\ rest.ret = localStorage.guest_cart_id)

(* the GraphQL creation failed and the REST fallback created the cart *)
C17_Witness ==
    /\ restGetCartIdWithoutStoredId
    /\ rest.useGraphQL
    /\ rest.pc = "resolved"
    /\ Len(rest.reqs) = 2
    /\ failed(rest.reqs[1])
    /\ rest.reqs[2].api = "restCreate"
    /\ rest.ret = localStorage.guest_cart_id

(* the step in which getCartData handles the answer to its cart query *)
fetchCartAnswered == svc.pc = "fetchCart" /\ svc'.pc # "fetchCart"

(* C18: getCartData never rejects, for any platform response and any storage
   contents written by this service: when the cart fetch fails it resolves
   with the previously cached snapshot if cart_data exists (even if older
   than 5 minutes) and otherwise with the empty cart, and a failed fetch
   leaves cart_data and cart_data_timestamp unchanged. *)
C18_GetCartDataNeverRejects ==
    /\ [](svc.op = "getCartData" => svc.pc \in {"fetchCart", "resolved"})
    /\ [][fetchCartAnswered =>
            LET resp == svc'.reqs[Len(svc.reqs)].answer
                fetched == /\ resp.kind = "response" /\ resp.ok /\ resp.json
                           /\ resp.errors = <<>>
            IN  /\ svc'.pc = "resolved"
                /\ ~fetched =>
                     /\ localStorage'.cart_data = localStorage.cart_data
                     /\ localStorage'.cart_data_timestamp = localStorage.cart_data_timestamp
                     /\ localStorage.cart_data # NoItem
                          => svc'.ret = JSONparse(localStorage.cart_data)
                     /\ localStorage.cart_data = NoItem => svc'.ret = EmptyCart]_vars

(* a fetch failed while a snapshot older than five minutes was stored, and
   that snapshot was returned *)
C18_Witness ==
    /\ getCartDataReturned
    /\ Len(svc.reqs) = 1
    /\ ~accepted(svc.reqs[1].answer)
    /\ svc.reqs[1].answer.kind = "response"
    /\ ~svc.reqs[1].answer.ok
    /\ svc.atCall.cart_data # NoItem
    /\ svc.atCall.now - parseInt(svc.atCall.cart_data_timestamp) >= 300000
    /\ localStorage.cart_data = svc.atCall.cart_data
    /\ svc.ret = JSONparse(svc.atCall.cart_data)
    /\ svc.ret >= 1

(* C19: whenever no guest_cart_id is stored, getCartData resolves with the
   empty cart and issues no request; this includes the state right after
   clearCart has discarded the cart id. *)
C19_EmptyCartWithoutCartId ==
    (getCartDataReturned /\ svc.atCall.guest_cart_id = Null) =>
        /\ svc.reqs = <<>>
        /\ svc.ret = EmptyCart

(* C20: after an add-to-cart call has succeeded, the next getCartData call
   returns a snapshot fetched from the platform after the add; a snapshot
   cached before the add (of an older revision of the cart) is not served. *)
C20_FreshSnapshotAfterAdd ==
    (getCartDataReturned /\ servedFromCache /\ svc.ret >= 1) => svc.ret = cartRev

(* initializeCart found a stored cart id and the platform refused the items
   request for that cart *)
provInitializedWithRefusedCart(i) ==
    /\ prov.ops[i].op = "initializeCart"
    /\ prov.ops[i].pc = "resolved"
    /\ prov.ops[i].existing # Null
    /\ prov.ops[i].reqs[1].answer = "httpError"

(* C21: when CartProvider initializes with a stored guest_cart_id whose cart
   the platform no longer accepts, it creates a new cart and ends with cartId
   equal to the new cart's id, an empty item list and isLoading false. *)
C21_InvalidStoredCartReplaced ==
    \A i \in ProvSlots :
        (/\ provInitializedWithRefusedCart(i)
         /\ \A j \in ProvSlots \ {i} : prov.ops[j].op = "none")
        => /\ Len(prov.ops[i].reqs) = 2
           /\ prov.ops[i].reqs[2].api = "create"
           /\ accepted(prov.ops[i].reqs[2].answer) =>
                 /\ prov.cartId # prov.ops[i].existing
                 /\ prov.cartId = localStorage.guest_cart_id
           /\ prov.cartItems = 0
           /\ ~prov.isLoading

(* C24: in CartProvider, for any interleaving of overlapping cart operations
   (initializeCart, createEmptyCart, addToCart), isLoading is true whenever
   at least one of them is still in flight and false once none is. *)
C24_LoadingWhileInFlight ==
    prov.isLoading <=> (\E i \in ProvSlots : provInFlight(prov.ops[i]))

(* a step in which handleSubmit issues a request *)
chkRequestIssued ==
    /\ chk'.reqs # chk.reqs
    /\ chk'.reqs # <<>>
    /\ chk'.reqs[Len(chk'.reqs)].answer = "pending"

(* C22: Checkout's handleSubmit issues setGuestEmailOnCart,
   setShippingAddressOnCart and setBillingAddressOnCart in that order, each
   only after the previous one succeeded and all with the stored cart id;
   success is set only after all three succeeded; if validation fails (email
   format, an incomplete shipping address, or an incomplete billing address
   when it is not the same as shipping) or no cart id is stored, none of the
   three requests is issued. *)
C22_CheckoutStepsInOrder ==
    /\ [](/\ Len(chk.reqs) <= 3
          /\ \A k \in 1..Len(chk.reqs) :
               /\ chk.reqs[k].api = <<"setGuestEmailOnCart", "setShippingAddressOnCart",
                                      "setBillingAddressOnCart">>[k]
               /\ k < Len(chk.reqs) => chk.reqs[k].answer = "ok"
               /\ chk.reqs[k].cart # Null
               /\ chk.reqs[k].cart = localStorage.guest_cart_id)
    /\ [][/\ (chk'.success /\ ~chk.success) =>
                (Len(chk'.reqs) = 3 /\ \A k \in 1..3 : chk'.reqs[k].answer = "ok")
          /\ chkRequestIssued =>
                /\ validateEmail(chk.email)
                /\ validateAddress(chk.shippingAddress)
                /\ chk.sameAsShipping \/ validateAddress(chk.billingAddress)
                /\ localStorage.guest_cart_id # Null]_vars

(* a submit with a separate billing address went through all three calls *)
C22_Witness ==
    /\ chk.success
    /\ ~chk.sameAsShipping
    /\ Len(chk.reqs) = 3
    /\ \A k \in 1..3 : chk.reqs[k].answer = "ok"
    /\ chk.reqs[3].api = "setBillingAddressOnCart"
    /\ chk.reqs[3].cart = localStorage.guest_cart_id

(* C23: in Checkout, after any sequence of submits, the success flag and a
   non-null error are never set at the same time. *)
C23_SuccessExcludesError ==
    ~(chk.success /\ chk.error # <<>>)

====
